---- MODULE Spec2Model ----
(***************************************************************************)
(* A model of gin-bot's hybrid task scheduler (service/scheduler: AddTask, *)
(* ListTasks, RemoveTask, ReloadPeriodicTasks, startZSetPoll), of the      *)
(* memory classification and routing pipeline (SaveMessageToRAG), of the   *)
(* retrieval step of GetAIResponse / GetAIResponseWithFC, of the proactive *)
(* interjection of main's OnMessage handler and of the tool layer          *)
(* (service/tools.go: ExecuteTool and the tools it dispatches to).         *)
(*                                                                         *)
(* The clock `now` stands for time.Now().Unix(); one tick of the model     *)
(* clock stands for the fixed proactive delay (4 hours).                   *)
(*                                                                         *)
(* A Go string is the sequence of its runes.  An ASCII rune is the         *)
(* one-character string; a CJK rune is named by its romanisation.          *)
(***************************************************************************)
EXTENDS Integers, Sequences, FiniteSets, TLC

\* ------------------------------------------------------------------ bounds
MaxTime == 1          \* the clock runs over 0..MaxTime
MaxAdds == 2          \* AddTask calls per run (each reads the nanosecond clock once)
MaxConcAdds == 1      \* ... per run in which the goroutines interleave
MaxMsgs == 2          \* messages handed to SaveMessageToRAG per run
MaxMatches == 2       \* matches a namespace query returns in the retrieval runs
MaxMinutes == 5       \* the message handler's clock runs over 0..MaxMinutes
MaxChatMsgs == 2      \* group messages handed to the OnMessage handler per run

\* ------------------------------------------------------------- small sets
Users == {1, 2}
Groups == {1}
Delays == {-1, 1}                          \* delay_seconds of add_timer_task
GoodCron == "0 0 9 * * *"
BadCron == "0 9 * * *"                     \* five fields: rejected by cron.WithSeconds
CronExprs == {GoodCron, BadCron}
Adder == "adder"                           \* the goroutine calling AddTask
Remover == "remover"                       \* the goroutine calling RemoveTask
Clients == {Adder, Remover}
NoOne == "none"

\* ------------------------------------------------------------------ maps
EmptyMap == [x \in {} |-> 0]
Put(m, k, v) == [x \in (DOMAIN m) \cup {k} |-> IF x = k THEN v ELSE m[x]]
Del(m, k) == [x \in (DOMAIN m) \ {k} |-> m[x]]

\* --------------------------------------------------------------- strings
Bar == <<"|">>
UpperRunes == <<"A", "B", "C", "D", "E", "F", "G", "H", "I", "J", "K", "L", "M",
                "N", "O", "P", "Q", "R", "S", "T", "U", "V", "W", "X", "Y", "Z">>
LowerRunes == <<"a", "b", "c", "d", "e", "f", "g", "h", "i", "j", "k", "l", "m",
                "n", "o", "p", "q", "r", "s", "t", "u", "v", "w", "x", "y", "z">>
SpaceRunes == {" ", "\t", "\n", "\r"}

\* strings.ToLower
ToLowerRune(r) ==
    IF \E i \in 1..Len(UpperRunes) : UpperRunes[i] = r
    THEN LowerRunes[CHOOSE i \in 1..Len(UpperRunes) : UpperRunes[i] = r]
    ELSE r
RECURSIVE ToLower(_)
ToLower(s) ==
    IF s = <<>> THEN <<>> ELSE <<ToLowerRune(Head(s))>> \o ToLower(Tail(s))

\* strings.TrimSpace
RECURSIVE TrimLeft(_)
TrimLeft(s) ==
    IF s # <<>> /\ Head(s) \in SpaceRunes THEN TrimLeft(Tail(s)) ELSE s
RECURSIVE TrimRight(_)
TrimRight(s) ==
    IF s # <<>> /\ s[Len(s)] \in SpaceRunes
    THEN TrimRight(SubSeq(s, 1, Len(s) - 1)) ELSE s
TrimSpace(s) == TrimRight(TrimLeft(s))

\* strings.Contains: sub occurs in s as a contiguous run (the empty string
\* occurs in every string)
Contains(s, sub) ==
    \E i \in 1..(Len(s) - Len(sub) + 1) : SubSeq(s, i, i + Len(sub) - 1) = sub

\* strings.Split(s, "|"): always at least one part
RECURSIVE Split(_)
Split(s) ==
    IF \E i \in 1..Len(s) : s[i] = "|"
    THEN LET i == CHOOSE k \in 1..Len(s) :
                      s[k] = "|" /\ \A j \in 1..(k - 1) : s[j] # "|"
         IN <<SubSeq(s, 1, i - 1)>> \o Split(SubSeq(s, i + 1, Len(s)))
    ELSE <<s>>

\* ------------------------------------------------------------- task ids
\* An id is the triple <<prefix, n, user>>: "task_<n>_<user>" or "proactive_<n>".
NoID == <<"", 0, 0>>
GenTaskID(nanos, user) == <<"task", nanos, user>>
ProactiveID(secs) == <<"proactive", secs, 0>>
HasProactivePrefix(id) == id[1] = "proactive"
PrefixRank(p) == IF p = "" THEN 0 ELSE IF p = "proactive" THEN 1 ELSE 2
\* byte order of the id strings (single-digit numbers)
IdLess(a, b) ==
    \/ PrefixRank(a[1]) < PrefixRank(b[1])
    \/ /\ a[1] = b[1]
       /\ \/ a[2] < b[2]
          \/ a[2] = b[2] /\ a[3] < b[3]

\* ---------------------------------------------------------- ScheduledTask
ZeroTask ==
    [id |-> NoID, type |-> "", content |-> <<>>, group_id |-> 0, user_id |-> 0,
     time_expr |-> "", target_at |-> 0]

\* json.Marshal / json.Unmarshal of a ScheduledTask.  A stored string is either
\* the encoding of a task or text that does not decode.
Marshal(t) == [valid |-> TRUE, v |-> t]
Garbage == [valid |-> FALSE, v |-> ZeroTask]
Unmarshal(d) == [err |-> ~d.valid, t |-> IF d.valid THEN d.v ELSE ZeroTask]

\* cron.Parser (seconds resolution): the expression parses or AddFunc fails
\* A variant of ParseOK that takes any expression.
ParseOK_Lenient(expr) == expr = expr

ParseOK(expr) == expr = GoodCron


\* ------------------------------------------------------------------ state
VARIABLES
    now,              \* time.Now().Unix()
    nano,             \* time.Now().UnixNano(), strictly increasing between AddTask calls
    rdbUp,            \* database.RDB != nil (fixed by InitRedis)
    zset,             \* "tasks:oneshot:schedule": id -> score
    hashOnce,         \* "tasks:oneshot:data":     id -> JSON
    hashPeriodic,     \* "tasks:periodic:data":    id -> JSON
    cronEntries,      \* CronManager's entries: records [eid, task]
    nextEntry,        \* the next cron.EntryID
    PeriodicEntries,  \* map id -> cron.EntryID
    schedulerMu,      \* the goroutine holding schedulerMu, or NoOne
    pc,               \* position of each caller of AddTask / RemoveTask
    arg,              \* the task (or id) each caller is working on
    ret,              \* the error value each caller's last call returned
    poll,             \* the startZSetPoll goroutine
    reload,           \* the ReloadPeriodicTasks goroutine
    sent,             \* GlobalSender calls made by the poller, per id
    fired,            \* the ids cron entries have called GlobalSender for
    firedLate,        \* ... of them, those called after RemoveTask(id) returned
    removed,          \* ids for which RemoveTask has returned nil
    justRemoved,      \* the id whose RemoveTask call returned in the last step
                      \* taken (kept while the same call is repeated), or NoID
    \* --- the memory pipeline
    groupActive,      \* groups.is_active, per group
    history,          \* chat_histories: row i is message i
    trace,            \* for the last message recorded: what classifyWithAI
                      \* returned and how SaveMessageToRAG parsed it
    goroutines,       \* goroutines SaveMessageToRAG started that have not run yet
    tempMem,          \* the TTL cache: SaveTemporaryMemory writes
    namespaces,       \* the vector index: namespace -> ids upserted
    embeddings,       \* member_embeddings rows
    \* --- retrieval
    pMatches,         \* what QueryWithScore returns for the personal namespace
    cMatches,         \* what QueryWithScore returns for the chat namespace
    answer,           \* what the retrieval step of GetAIResponse computed
    \* --- the tool layer
    toolResult,       \* the ToolResult of the last tool call
    \* --- main's OnMessage handler: proactive interjection
    minute,            \* time.Now() of the handler, in minutes
    handled,           \* group messages the handler has been called for
    proactiveCooldown, \* the map groupID -> time of the last interjection
    handling,          \* the handler call under way: [pc, group, n]
    interjectors,      \* goroutines the handler started: records [n, group, pc]
    interjections,     \* ctx.Send calls of those goroutines: records [n, group, at]
    mapAccess,         \* who is inside an access of proactiveCooldown:
                       \* records [who, write]
    \* --- ExecuteTool and the groups table
    toolCall,          \* the last ExecuteTool call: name, arguments, caller
    groupRows,         \* the groups that have a row in the groups table
    groupRAG           \* groups.rag_enabled, per group

schedVars ==
    <<now, nano, rdbUp, zset, hashOnce, hashPeriodic, cronEntries, nextEntry,
      PeriodicEntries, schedulerMu, pc, arg, ret, poll, reload, sent, fired, firedLate, removed, justRemoved>>

ragVars ==
    <<groupActive, history, trace, goroutines, tempMem, namespaces, embeddings>>

retVars == <<pMatches, cMatches, answer>>

chatVars ==
    <<minute, handled, proactiveCooldown, handling, interjectors,
      interjections, mapAccess>>

cfgVars == <<toolCall, groupRows, groupRAG>>

toolVars == <<toolResult, chatVars, cfgVars>>

appVars == <<ragVars, retVars, toolVars>>

vars == <<schedVars, ragVars, retVars, toolVars>>

Count(m, k) == IF k \in DOMAIN m THEN m[k] ELSE 0
Inc(m, k) == Put(m, k, Count(m, k) + 1)

\* no prompt has been built for the generation call
NoPrompt == [reason |-> <<>>, origMsg |-> <<>>]

IdlePoll ==
    [pc |-> "idle", ids |-> <<>>, i |-> 1, data |-> Garbage, ok |-> TRUE,
     expect |-> {}, content |-> <<>>, prompt |-> NoPrompt]
FreshReload == [pc |-> "start", all |-> EmptyMap]

\* ------------------------------------------------------------- ListTasks
\* A variant of Matches in which a zero filter matches only a zero field.
Matches_NoWildcard(t, groupID, userID) ==
    t.group_id = groupID /\ t.user_id = userID

Matches(t, groupID, userID) ==
    /\ groupID = 0 \/ t.group_id = groupID
    /\ userID = 0 \/ t.user_id = userID

\* The tasks ListTasks(groupID, userID) returns, as a set (no order is promised).
ListTasks(groupID, userID) ==
    IF ~rdbUp THEN {}
    ELSE {Unmarshal(hashOnce[k]).t : k \in {x \in DOMAIN hashOnce :
               /\ ~Unmarshal(hashOnce[x]).err
               /\ Matches(Unmarshal(hashOnce[x]).t, groupID, userID)}}
         \cup
         {Unmarshal(hashPeriodic[k]).t : k \in {x \in DOMAIN hashPeriodic :
               /\ ~Unmarshal(hashPeriodic[x]).err
               /\ Matches(Unmarshal(hashPeriodic[x]).t, groupID, userID)}}

\* --------------------------------------------------------------- callers
\* "drink water": the content of the reminders the tool calls ask for
Water == <<"w", "a", "t", "e", "r">>

\* executeAddTimerTask: the task the add_timer_task tool hands to AddTask.
ToolTask(type, user, group, delay, cron) ==
    [id |-> NoID, type |-> type, content |-> Water, group_id |-> group,
     user_id |-> user,
     time_expr |-> IF type = "periodic" THEN cron ELSE "",
     target_at |-> IF type = "once" THEN now + delay ELSE 0]

\* one tick of the model clock = the 4 hours of the proactive follow-up
FixedDelay == 1

\* SaveMessageToRAG: the follow-up task of a proactive trigger.
ProactiveTask(user, group, reason, content) ==
    [id |-> ProactiveID(now), type |-> "once",
     content |-> reason \o Bar \o content, group_id |-> group, user_id |-> user,
     time_expr |-> "", target_at |-> now + FixedDelay]

\* a reason the classifier gives, and a message that triggers it
Exam == <<"e", "x", "a", "m">>
MsgInterview == <<"ming", "tian", "mian", "shi_test">>

\* the calls of AddTask the two call sites make
TaskInputs ==
    {ToolTask("once", 1, g, d, "") : g \in Groups, d \in Delays}
    \cup {ToolTask("once", 2, g, 1, "") : g \in Groups}
    \cup {ToolTask("periodic", 2, g, 0, e) : g \in Groups, e \in CronExprs}


\* ------------------------------------------------------------------ Init
\* The state right after InitScheduler: GlobalSender is set, the cron engine
\* runs with no entry, and the poller and the reload goroutine are started.
SchedInit ==
    /\ now = 0
    /\ nano = 0
    /\ rdbUp \in BOOLEAN
    /\ zset = EmptyMap
    /\ hashOnce = EmptyMap
    /\ hashPeriodic = EmptyMap
    /\ cronEntries = {}
    /\ nextEntry = 1
    /\ PeriodicEntries = EmptyMap
    /\ schedulerMu = NoOne
    /\ pc = [c \in Clients |-> "idle"]
    /\ arg = [c \in Clients |-> ZeroTask]
    /\ ret = [c \in Clients |-> "nil"]
    /\ poll = IdlePoll
    /\ reload = FreshReload
    /\ sent = EmptyMap
    /\ fired = {}
    /\ firedLate = {}
    /\ removed = {}
    /\ justRemoved = NoID

Return(c, err) ==
    /\ pc' = [pc EXCEPT ![c] = "idle"]
    /\ arg' = [arg EXCEPT ![c] = ZeroTask]
    /\ ret' = [ret EXCEPT ![c] = err]

\* --------------------------------------------------------------- AddTask
\* cron.AddFunc: a new entry under the next EntryID
AddFunc(entries, eid, t) == entries \cup {[eid |-> eid, task |-> t]}

\* AddTask up to its first store write: the id is assigned, a nil RDB is an
\* error, a periodic task takes schedulerMu and is registered with the engine,
\* a one-shot task is written to the content hash.
AddTaskCall(c, t0) ==
    LET t == IF t0.id = NoID
             THEN [t0 EXCEPT !.id = GenTaskID(nano + 1, t0.user_id)]
             ELSE t0
    IN
    /\ pc[c] = "idle"
    /\ nano < MaxAdds
    /\ nano' = nano + 1
    /\ IF ~rdbUp
       THEN /\ Return(c, "err")
            /\ UNCHANGED <<zset, hashOnce, hashPeriodic, cronEntries, nextEntry,
                           PeriodicEntries, schedulerMu, removed>>
       ELSE IF t.type = "periodic"
       THEN /\ schedulerMu = NoOne
            /\ IF ~ParseOK(t.time_expr)
               THEN /\ Return(c, "err")
                    /\ UNCHANGED <<cronEntries, nextEntry, PeriodicEntries,
                                   schedulerMu, removed>>
               ELSE /\ cronEntries' = AddFunc(cronEntries, nextEntry, t)
                    /\ nextEntry' = nextEntry + 1
                    /\ PeriodicEntries' = Put(PeriodicEntries, t.id, nextEntry)
                    /\ schedulerMu' = c
                    /\ pc' = [pc EXCEPT ![c] = "add_hset_periodic"]
                    /\ arg' = [arg EXCEPT ![c] = t]
                    /\ removed' = removed \ {t.id}
                    /\ UNCHANGED ret
            /\ UNCHANGED <<zset, hashOnce, hashPeriodic>>
       ELSE /\ hashOnce' = Put(hashOnce, t.id, Marshal(t))
            /\ pc' = [pc EXCEPT ![c] = "add_zadd"]
            /\ arg' = [arg EXCEPT ![c] = t]
            /\ removed' = removed \ {t.id}
            /\ UNCHANGED <<zset, hashPeriodic, cronEntries, nextEntry,
                           PeriodicEntries, schedulerMu, ret>>
    /\ justRemoved' = NoID
    /\ UNCHANGED <<now, rdbUp, poll, reload, sent, fired, firedLate>>

\* executeAddTimerTask: the add_timer_task tool calls AddTask
ExecuteAddTimerTask(inputs) ==
    /\ \E t \in inputs : AddTaskCall(Adder, t)
    /\ UNCHANGED appVars

\* AddTask, periodic, returning with schedulerMu still held
AddTaskHSetPeriodic_NoUnlock(c) ==
    /\ pc[c] = "add_hset_periodic"
    /\ hashPeriodic' = Put(hashPeriodic, arg[c].id, Marshal(arg[c]))
    /\ Return(c, "nil")
    /\ justRemoved' = NoID
    /\ UNCHANGED <<now, nano, rdbUp, zset, hashOnce, cronEntries, nextEntry,
                   PeriodicEntries, schedulerMu, poll, reload, sent, fired,
                   firedLate, removed>>
    /\ UNCHANGED appVars

\* AddTask, periodic: HSet of the details, then the deferred Unlock
AddTaskHSetPeriodic(c) ==
    /\ pc[c] = "add_hset_periodic"
    /\ hashPeriodic' = Put(hashPeriodic, arg[c].id, Marshal(arg[c]))
    /\ schedulerMu' = NoOne
    /\ Return(c, "nil")
    /\ justRemoved' = NoID
    /\ UNCHANGED <<now, nano, rdbUp, zset, hashOnce, cronEntries, nextEntry,
                   PeriodicEntries, poll, reload, sent, fired,
                   firedLate, removed>>
    /\ UNCHANGED appVars

\* AddTask, one-shot: ZAdd of the bare id under score target_at
AddTaskZAdd(c) ==
    /\ pc[c] = "add_zadd"
    /\ zset' = Put(zset, arg[c].id, arg[c].target_at)
    /\ Return(c, "nil")
    /\ justRemoved' = NoID
    /\ UNCHANGED <<now, nano, rdbUp, hashOnce, hashPeriodic, cronEntries,
                   nextEntry, PeriodicEntries, schedulerMu, poll, reload, sent,
                   fired, firedLate, removed>>
    /\ UNCHANGED appVars


\* ------------------------------------------------------------ RemoveTask
\* cron.Remove: the entry with that EntryID is dropped
CronRemove(entries, eid) == {e \in entries : e.eid # eid}

\* an id no AddTask ever produced
UnknownID == <<"task", 0, 0>>

\* the ids a caller may pass to RemoveTask
RemoveIds ==
    (DOMAIN zset) \cup (DOMAIN hashOnce) \cup (DOMAIN hashPeriodic)
        \cup (DOMAIN PeriodicEntries) \cup removed \cup {UnknownID}

\* RemoveTask up to its first store command: a nil RDB is an error; under
\* schedulerMu a registered id is removed from the engine and from
\* PeriodicEntries.
RemoveTaskCall(c, id) ==
    /\ pc[c] = "idle"
    /\ IF ~rdbUp
       THEN /\ Return(c, "err")
            /\ justRemoved' = NoID
            /\ UNCHANGED <<cronEntries, PeriodicEntries>>
       ELSE /\ schedulerMu = NoOne
            /\ arg' = [arg EXCEPT ![c] = [ZeroTask EXCEPT !.id = id]]
            /\ justRemoved' = IF justRemoved = id THEN id ELSE NoID
            /\ UNCHANGED ret
            /\ IF id \in DOMAIN PeriodicEntries
               THEN /\ cronEntries' = CronRemove(cronEntries, PeriodicEntries[id])
                    /\ PeriodicEntries' = Del(PeriodicEntries, id)
                    /\ pc' = [pc EXCEPT ![c] = "rm_hdel_periodic"]
               ELSE /\ pc' = [pc EXCEPT ![c] = "rm_zrem"]
                    /\ UNCHANGED <<cronEntries, PeriodicEntries>>
    /\ UNCHANGED <<now, nano, rdbUp, zset, hashOnce, hashPeriodic, nextEntry,
                   schedulerMu, poll, reload, sent, fired, firedLate,
                   removed>>

\* RemoveTask, periodic: HDel after the Unlock, its result ignored; returns nil
RemoveTaskHDelPeriodic(c) ==
    /\ pc[c] = "rm_hdel_periodic"
    /\ hashPeriodic' = Del(hashPeriodic, arg[c].id)
    /\ removed' = removed \cup ({arg[c].id} \ {UnknownID})
    /\ justRemoved' = arg[c].id
    /\ Return(c, "nil")
    /\ UNCHANGED <<now, nano, rdbUp, zset, hashOnce, cronEntries, nextEntry,
                   PeriodicEntries, schedulerMu, poll, reload, sent, fired, firedLate>>
    /\ UNCHANGED appVars

\* RemoveTask, one-shot: ZRem of the index entry
RemoveTaskZRem(c) ==
    /\ pc[c] = "rm_zrem"
    /\ zset' = Del(zset, arg[c].id)
    /\ pc' = [pc EXCEPT ![c] = "rm_hdel"]
    /\ UNCHANGED <<now, nano, rdbUp, hashOnce, hashPeriodic, cronEntries,
                   nextEntry, PeriodicEntries, schedulerMu, arg, ret, poll,
                   reload, sent, fired, firedLate, removed,
                   justRemoved>>
    /\ UNCHANGED appVars

\* A variant of RemoveTaskHDel that reports an id without a content entry as
\* an error.
RemoveTaskHDel_ErrIfMissing(c) ==
    /\ pc[c] = "rm_hdel"
    /\ hashOnce' = Del(hashOnce, arg[c].id)
    /\ removed' = removed \cup ({arg[c].id} \ {UnknownID})
    /\ justRemoved' = arg[c].id
    /\ Return(c, IF arg[c].id \in DOMAIN hashOnce THEN "nil" ELSE "err")
    /\ UNCHANGED <<now, nano, rdbUp, zset, hashPeriodic, cronEntries, nextEntry,
                   PeriodicEntries, schedulerMu, poll, reload, sent,
                   fired, firedLate>>
    /\ UNCHANGED appVars

\* RemoveTask, one-shot: HDel of the content entry, whose error is returned
RemoveTaskHDel(c) ==
    /\ pc[c] = "rm_hdel"
    /\ hashOnce' = Del(hashOnce, arg[c].id)
    /\ removed' = removed \cup ({arg[c].id} \ {UnknownID})
    /\ justRemoved' = arg[c].id
    /\ Return(c, "nil")
    /\ UNCHANGED <<now, nano, rdbUp, zset, hashPeriodic, cronEntries, nextEntry,
                   PeriodicEntries, schedulerMu, poll, reload, sent, fired, firedLate>>
    /\ UNCHANGED appVars

\* --------------------------------------------------- ReloadPeriodicTasks
\* The permutations of a finite set: the orders a Go map range may take.
RECURSIVE Orders(_)
Orders(S) ==
    IF S = {} THEN {<<>>}
    ELSE UNION {{<<x>> \o o : o \in Orders(S \ {x})} : x \in S}

\* A variant of ReloadLoop that registers every entry with the engine but
\* forgets to record its EntryID in PeriodicEntries.
RECURSIVE ReloadLoop_NoIndex(_, _, _)
ReloadLoop_NoIndex(order, all, st) ==
    IF order = <<>> THEN st
    ELSE LET id == Head(order)
             u == Unmarshal(all[id])
         IN IF u.err \/ ~ParseOK(u.t.time_expr)
            THEN ReloadLoop_NoIndex(Tail(order), all, st)
            ELSE ReloadLoop_NoIndex(Tail(order), all,
                     [entries |-> AddFunc(st.entries, st.next, u.t),
                      next |-> st.next + 1,
                      index |-> st.index])

\* A variant of ReloadLoop that gives up at the first entry that does not
\* decode or whose expression does not parse.
RECURSIVE ReloadLoop_AbortOnError(_, _, _)
ReloadLoop_AbortOnError(order, all, st) ==
    IF order = <<>> THEN st
    ELSE LET id == Head(order)
             u == Unmarshal(all[id])
         IN IF u.err \/ ~ParseOK(u.t.time_expr)
            THEN st
            ELSE ReloadLoop_AbortOnError(Tail(order), all,
                     [entries |-> AddFunc(st.entries, st.next, u.t),
                      next |-> st.next + 1,
                      index |-> Put(st.index, id, st.next)])

\* The loop body of ReloadPeriodicTasks over the ids in `order`: an entry that
\* does not decode or whose expression does not parse is skipped.
RECURSIVE ReloadLoop(_, _, _)
ReloadLoop(order, all, st) ==
    IF order = <<>> THEN st
    ELSE LET id == Head(order)
             u == Unmarshal(all[id])
         IN IF u.err \/ ~ParseOK(u.t.time_expr)
            THEN ReloadLoop(Tail(order), all, st)
            ELSE ReloadLoop(Tail(order), all,
                     [entries |-> AddFunc(st.entries, st.next, u.t),
                      next |-> st.next + 1,
                      index |-> Put(st.index, id, st.next)])

\* ReloadPeriodicTasks: HGetAll of the periodic hash, before the lock is taken
ReloadRead ==
    /\ reload.pc = "start"
    /\ reload' = IF rdbUp THEN [pc |-> "loaded", all |-> hashPeriodic]
                          ELSE [pc |-> "done", all |-> EmptyMap]
    /\ justRemoved' = NoID
    /\ UNCHANGED <<now, nano, rdbUp, zset, hashOnce, hashPeriodic, cronEntries,
                   nextEntry, PeriodicEntries, schedulerMu, pc, arg, ret, poll,
                   sent, fired, firedLate, removed>>
    /\ UNCHANGED appVars

\* ReloadPeriodicTasks: under schedulerMu, every entry read is registered
ReloadRegister ==
    /\ reload.pc = "loaded"
    /\ schedulerMu = NoOne
    /\ \E order \in Orders(DOMAIN reload.all) :
          LET st == ReloadLoop(order, reload.all,
                        [entries |-> cronEntries, next |-> nextEntry,
                         index |-> PeriodicEntries])
          IN /\ cronEntries' = st.entries
             /\ nextEntry' = st.next
             /\ PeriodicEntries' = st.index
    /\ reload' = [pc |-> "done", all |-> EmptyMap]
    /\ justRemoved' = NoID
    /\ UNCHANGED <<now, nano, rdbUp, zset, hashOnce, hashPeriodic, schedulerMu,
                   pc, arg, ret, poll, sent, fired, firedLate,
                   removed>>
    /\ UNCHANGED appVars


\* ---------------------------------------------------------- startZSetPoll
\* ZRangeByScore(Min "0", Max now): the members with 0 <= score <= t, by
\* ascending score, equal scores in byte order of the member.
Before(z, a, b) == z[a] < z[b] \/ (z[a] = z[b] /\ IdLess(a, b))

RECURSIVE SortIds(_, _)
SortIds(z, S) ==
    IF S = {} THEN <<>>
    ELSE LET m == CHOOSE x \in S : \A y \in S \ {x} : Before(z, x, y)
         IN <<m>> \o SortIds(z, S \ {m})

\* A variant of ZRangeByScore that ignores the upper bound.
ZRangeByScore_NoMax(z, lo, hi) ==
    SortIds(z, {x \in DOMAIN z : lo <= z[x]})

\* A variant of ZRangeByScore whose upper bound is exclusive.
ZRangeByScore_Exclusive(z, lo, hi) ==
    SortIds(z, {x \in DOMAIN z : lo <= z[x] /\ z[x] < hi})

ZRangeByScore(z, lo, hi) == SortIds(z, {x \in DOMAIN z : lo <= z[x] /\ z[x] <= hi})

\* The one-shot tasks a sweep at this instant is expected to dispatch: those an
\* AddTask call has returned for, still stored, with 0 <= target_at <= now.
InFlightAdd(id) == \E c \in Clients : pc[c] = "add_zadd" /\ arg[c].id = id

ExpectedDue ==
    {id \in DOMAIN hashOnce :
        /\ ~InFlightAdd(id)
        /\ ~Unmarshal(hashOnce[id]).err
        /\ 0 <= Unmarshal(hashOnce[id]).t.target_at
        /\ Unmarshal(hashOnce[id]).t.target_at <= now}

\* one tick of the poller: the sweep of the time index
PollSweep ==
    /\ poll.pc = "idle"
    /\ rdbUp
    /\ poll' = [pc |-> "fetch", ids |-> ZRangeByScore(zset, 0, now), i |-> 1,
                data |-> Garbage, ok |-> TRUE, expect |-> ExpectedDue,
                content |-> <<>>, prompt |-> NoPrompt]
    /\ justRemoved' = NoID
    /\ UNCHANGED <<now, nano, rdbUp, zset, hashOnce, hashPeriodic, cronEntries,
                   nextEntry, PeriodicEntries, schedulerMu, pc, arg, ret, reload,
                   sent, fired, firedLate, removed>>
    /\ UNCHANGED appVars

\* the sweep is empty or every id of it has been handled: wait for the ticker
PollDone ==
    /\ poll.pc = "fetch"
    /\ poll.i > Len(poll.ids)
    /\ poll' = IdlePoll
    /\ justRemoved' = NoID
    /\ UNCHANGED <<now, nano, rdbUp, zset, hashOnce, hashPeriodic, cronEntries,
                   nextEntry, PeriodicEntries, schedulerMu, pc, arg, ret, reload,
                   sent, fired, firedLate, removed>>
    /\ UNCHANGED appVars

\* A variant of PollFetch that ignores the error of HGet: a missing content
\* entry reads as an empty string, which it goes on to decode as the zero task.
PollFetch_IgnoreMiss ==
    /\ poll.pc = "fetch"
    /\ poll.i <= Len(poll.ids)
    /\ LET id == poll.ids[poll.i]
       IN poll' = IF id \in DOMAIN hashOnce
                  THEN [poll EXCEPT !.pc = "send", !.data = hashOnce[id]]
                  ELSE [poll EXCEPT !.pc = "send", !.data = Marshal(ZeroTask)]
    /\ justRemoved' = NoID
    /\ UNCHANGED <<now, nano, rdbUp, zset, hashOnce, hashPeriodic, cronEntries,
                   nextEntry, PeriodicEntries, schedulerMu, pc, arg, ret, reload,
                   sent, fired, firedLate, removed>>
    /\ UNCHANGED appVars

\* HGet of the content of the current id
PollFetch ==
    /\ poll.pc = "fetch"
    /\ poll.i <= Len(poll.ids)
    /\ LET id == poll.ids[poll.i]
       IN poll' = IF id \in DOMAIN hashOnce
                  THEN [poll EXCEPT !.pc = "send", !.data = hashOnce[id]]
                  ELSE [poll EXCEPT !.pc = "stale"]
    /\ justRemoved' = NoID
    /\ UNCHANGED <<now, nano, rdbUp, zset, hashOnce, hashPeriodic, cronEntries,
                   nextEntry, PeriodicEntries, schedulerMu, pc, arg, ret, reload,
                   sent, fired, firedLate, removed>>
    /\ UNCHANGED appVars

\* A variant of PollStale that gives up the sweep after removing the index
\* entry.
PollStale_AbortSweep ==
    /\ poll.pc = "stale"
    /\ zset' = Del(zset, poll.ids[poll.i])
    /\ poll' = IdlePoll
    /\ justRemoved' = NoID
    /\ UNCHANGED <<now, nano, rdbUp, hashOnce, hashPeriodic, cronEntries,
                   nextEntry, PeriodicEntries, schedulerMu, pc, arg, ret, reload,
                   sent, fired, firedLate, removed>>
    /\ UNCHANGED appVars

\* no content: the index entry is removed and the loop continues
PollStale ==
    /\ poll.pc = "stale"
    /\ zset' = Del(zset, poll.ids[poll.i])
    /\ poll' = [poll EXCEPT !.pc = "fetch", !.i = poll.i + 1]
    /\ justRemoved' = NoID
    /\ UNCHANGED <<now, nano, rdbUp, hashOnce, hashPeriodic, cronEntries,
                   nextEntry, PeriodicEntries, schedulerMu, pc, arg, ret, reload,
                   sent, fired, firedLate, removed>>
    /\ UNCHANGED appVars

\* GetProactiveCareReply: the reason and the original message are read from
\* the task content and put into the prompt; the text and the error are those
\* of callNvidiaAPI.
CareText == <<"hai", "hao", "ma">>
CareReplies ==
    {[kind |-> k, content |-> <<>>] : k \in {"transport", "badjson", "nochoices"}}
    \cup {[kind |-> "ok", content |-> c] : c \in {<<>>, CareText}}
NoReply == [kind |-> "none", content |-> <<>>]

\* the default reason
Followup == <<"sui", "fang">>

\* GetProactiveCareReply: the task content is split at every "|"; with two
\* parts or more the first is the reason and the second the original message
CarePrompt(taskContent) ==
    LET parts == Split(taskContent)
    IN IF Len(parts) >= 2
       THEN [reason |-> parts[1], origMsg |-> parts[2]]
       ELSE [reason |-> Followup, origMsg |-> <<>>]

GetProactiveCareReply(taskContent, r) ==
    IF r.kind = "ok"
    THEN [text |-> r.content, err |-> FALSE, prompt |-> CarePrompt(taskContent)]
    ELSE [text |-> <<>>, err |-> TRUE, prompt |-> CarePrompt(taskContent)]

\* the prompt built while task t is dispatched with generation outcome r
PromptOf(t, r) ==
    IF HasProactivePrefix(t.id) THEN GetProactiveCareReply(t.content, r).prompt
    ELSE NoPrompt

\* the answers the generation call may give for the task the poller holds: it
\* is made for ids with the proactive_ prefix only
CareOutcomes(t) == IF HasProactivePrefix(t.id) THEN CareReplies ELSE {NoReply}

\* the fixed message sent when no reply could be generated
FallbackCare == <<"ji", "de", "ni", "shuo", "jin", "tian", "you", "shi">>

\* A variant of SendContent without the fixed message: whatever the generation
\* call returned is sent.
SendContent_NoFallback(t, r) ==
    IF HasProactivePrefix(t.id)
    THEN GetProactiveCareReply(t.content, r).text
    ELSE t.content

\* startZSetPoll: the text handed to GlobalSender for task t
SendContent(t, r) ==
    IF HasProactivePrefix(t.id)
    THEN LET reply == GetProactiveCareReply(t.content, r)
         IN IF ~reply.err /\ reply.text # <<>> THEN reply.text ELSE FallbackCare
    ELSE t.content

\* A variant of PollSend that leaves an entry that does not decode in the
\* store and goes on with the next id.
PollSend_KeepCorrupt ==
    /\ poll.pc = "send"
    /\ IF Unmarshal(poll.data).err
       THEN /\ UNCHANGED sent
            /\ poll' = [poll EXCEPT !.pc = "fetch", !.i = poll.i + 1]
       ELSE /\ sent' = Inc(sent, poll.ids[poll.i])
            /\ \E ok \in BOOLEAN, r \in CareOutcomes(Unmarshal(poll.data).t) :
                  poll' = [poll EXCEPT !.pc = "zrem", !.ok = ok,
                              !.content = SendContent(Unmarshal(poll.data).t, r),
                              !.prompt = PromptOf(Unmarshal(poll.data).t, r)]
    /\ justRemoved' = NoID
    /\ UNCHANGED <<now, nano, rdbUp, zset, hashOnce, hashPeriodic, cronEntries,
                   nextEntry, PeriodicEntries, schedulerMu, pc, arg, ret, reload,
                   fired, firedLate, removed>>
    /\ UNCHANGED appVars

\* A variant of PollSend that keeps the task for a later cycle when the send
\* did not get through.
PollSend_RetryOnFailure ==
    /\ poll.pc = "send"
    /\ IF Unmarshal(poll.data).err
       THEN /\ UNCHANGED sent
            /\ poll' = [poll EXCEPT !.pc = "zrem"]
       ELSE /\ sent' = Inc(sent, poll.ids[poll.i])
            /\ \E ok \in BOOLEAN, r \in CareOutcomes(Unmarshal(poll.data).t) :
                  poll' = IF ok
                          THEN [poll EXCEPT !.pc = "zrem", !.ok = ok,
                                   !.content = SendContent(Unmarshal(poll.data).t, r),
                              !.prompt = PromptOf(Unmarshal(poll.data).t, r)]
                          ELSE [poll EXCEPT !.pc = "fetch", !.i = poll.i + 1,
                                            !.ok = ok]
    /\ justRemoved' = NoID
    /\ UNCHANGED <<now, nano, rdbUp, zset, hashOnce, hashPeriodic, cronEntries,
                   nextEntry, PeriodicEntries, schedulerMu, pc, arg, ret, reload,
                   fired, firedLate, removed>>
    /\ UNCHANGED appVars

\* The content is decoded and, when it decodes, handed to GlobalSender: as
\* stored, or for a proactive_ id the generated reply or the fixed message.
\* The sender returns nothing: whether the message got through (ok) is not
\* known to the poller; poll.ok and poll.content remember the call until the
\* task is cleaned up.
PollSend ==
    /\ poll.pc = "send"
    /\ IF Unmarshal(poll.data).err
       THEN /\ UNCHANGED sent
            /\ poll' = [poll EXCEPT !.pc = "zrem"]
       ELSE /\ sent' = Inc(sent, poll.ids[poll.i])
            /\ \E ok \in BOOLEAN, r \in CareOutcomes(Unmarshal(poll.data).t) :
                  poll' = [poll EXCEPT !.pc = "zrem", !.ok = ok,
                              !.content = SendContent(Unmarshal(poll.data).t, r),
                              !.prompt = PromptOf(Unmarshal(poll.data).t, r)]
    /\ justRemoved' = NoID
    /\ UNCHANGED <<now, nano, rdbUp, zset, hashOnce, hashPeriodic, cronEntries,
                   nextEntry, PeriodicEntries, schedulerMu, pc, arg, ret, reload,
                   fired, firedLate, removed>>
    /\ UNCHANGED appVars

\* cleanup: ZRem of the index entry
PollZRem ==
    /\ poll.pc = "zrem"
    /\ zset' = Del(zset, poll.ids[poll.i])
    /\ poll' = [poll EXCEPT !.pc = "hdel"]
    /\ justRemoved' = NoID
    /\ UNCHANGED <<now, nano, rdbUp, hashOnce, hashPeriodic, cronEntries,
                   nextEntry, PeriodicEntries, schedulerMu, pc, arg, ret, reload,
                   sent, fired, firedLate, removed>>
    /\ UNCHANGED appVars

\* cleanup: HDel of the content entry, then the next id
PollHDel ==
    /\ poll.pc = "hdel"
    /\ hashOnce' = Del(hashOnce, poll.ids[poll.i])
    /\ poll' = [poll EXCEPT !.pc = "fetch", !.i = poll.i + 1, !.data = Garbage,
                            !.ok = TRUE, !.content = <<>>,
                            !.prompt = NoPrompt]
    /\ justRemoved' = NoID
    /\ UNCHANGED <<now, nano, rdbUp, zset, hashPeriodic, cronEntries, nextEntry,
                   PeriodicEntries, schedulerMu, pc, arg, ret, reload, sent,
                   fired, firedLate, removed>>
    /\ UNCHANGED appVars

\* ------------------------------------------------- cron engine and clock
\* a schedule tick: the callback of one live entry calls GlobalSender
CronFire ==
    /\ \E e \in cronEntries :
          /\ fired' = fired \cup {e.task.id}
          /\ firedLate' = firedLate \cup ({e.task.id} \cap removed)
    /\ justRemoved' = NoID
    /\ UNCHANGED <<now, nano, rdbUp, zset, hashOnce, hashPeriodic, cronEntries,
                   nextEntry, PeriodicEntries, schedulerMu, pc, arg, ret, poll,
                   reload, sent, removed>>
    /\ UNCHANGED appVars

Tick ==
    /\ now < MaxTime
    /\ now' = now + 1
    /\ justRemoved' = NoID
    /\ UNCHANGED <<nano, rdbUp, zset, hashOnce, hashPeriodic, cronEntries,
                   nextEntry, PeriodicEntries, schedulerMu, pc, arg, ret, poll,
                   reload, sent, fired, firedLate, removed>>
    /\ UNCHANGED appVars

\* The goroutines in the middle of an operation.
Busy ==
    {c \in Clients : pc[c] # "idle"}
        \cup (IF poll.pc # "idle" THEN {"poller"} ELSE {})
        \cup (IF reload.pc = "loaded" THEN {"reload"} ELSE {})

\* The process is stopped while no operation is in flight and started again:
\* main runs InitScheduler; everything in memory is new, the durable store is
\* kept.
Restart ==
    /\ Busy = {}
    /\ cronEntries' = {}
    /\ nextEntry' = 1
    /\ PeriodicEntries' = EmptyMap
    /\ schedulerMu' = NoOne
    /\ pc' = [c \in Clients |-> "idle"]
    /\ arg' = [c \in Clients |-> ZeroTask]
    /\ ret' = [c \in Clients |-> "nil"]
    /\ poll' = IdlePoll
    /\ reload' = FreshReload
    /\ justRemoved' = NoID
    /\ UNCHANGED <<now, nano, rdbUp, zset, hashOnce, hashPeriodic, sent,
                   fired, firedLate, removed>>
    /\ UNCHANGED appVars

\* ------------------------------------------------------ memory pipeline
PERSONAL == <<"p", "e", "r", "s", "o", "n", "a", "l">>
TEMPORARY == <<"t", "e", "m", "p", "o", "r", "a", "r", "y">>
CHAT == <<"c", "h", "a", "t">>
Tiers == {PERSONAL, TEMPORARY, CHAT}
\* the literal "personal|temporary|chat" of the validity check
TierList == PERSONAL \o Bar \o TEMPORARY \o Bar \o CHAT
TrueStr == <<"t", "r", "u", "e">>
FalseStr == <<"f", "a", "l", "s", "e">>
FallbackStr == <<"f", "a", "l", "l", "b", "a", "c", "k">>
ErrorStr == <<"e", "r", "r", "o", "r">>

\* personalPatterns, each alternation written out
personalPatterns ==
    << {<<"wo", "xi", "huan">>, <<"wo", "ai">>, <<"wo", "tao", "yan">>,
        <<"wo", "bu", "xi", "huan">>, <<"wo", "pian", "hao">>},
       {<<"wo", "shi">>, <<"wo", "jiao">>, <<"wo", "ming", "zi">>},
       {<<"wo", "de", "ai", "hao">>, <<"wo", "de", "xing", "qu">>,
        <<"wo", "de", "xi_habit", "guan">>, <<"wo", "de", "gong", "zuo">>,
        <<"wo", "de", "zhi", "ye">>, <<"wo", "de", "nian", "ling">>,
        <<"wo", "de", "sheng", "ri">>},
       {<<"wo", "jin", "nian">>, <<"wo", "shu">>, <<"wo", "zhu", "zai">>,
        <<"wo", "lai", "zi_self">>} >>

\* regexp.MatchString: some alternative occurs in the content
MatchString(pattern, content) == \E alt \in pattern : Contains(content, alt)

\* A variant of classifyWithRegex that never looks at the patterns.
classifyWithRegex_AlwaysChat(content) == CHAT

classifyWithRegex(content) ==
    IF \E i \in 1..Len(personalPatterns) : MatchString(personalPatterns[i], content)
    THEN PERSONAL
    ELSE CHAT

\* The messages of the runs: "I like cats", "interview tomorrow".
MsgLikeCats == <<"wo", "xi", "huan", "mao">>
Messages ==
    {[user |-> 1, group |-> 1, content |-> MsgLikeCats],
     [user |-> 2, group |-> 1, content |-> MsgInterview]}

\* What the classifier model answers when the call goes through.
AIOutputs ==
    {t \o Bar \o TrueStr \o Bar \o Exam : t \in Tiers}
    \cup {<<" ", "P">> \o Tail(PERSONAL) \o <<" ">> \o Bar
              \o <<"T", "r", "u", "e">> \o Bar \o Exam,
          CHAT,
          SubSeq(TEMPORARY, 1, 4) \o Bar \o TrueStr \o Bar \o Exam,
          <<>>,
          SubSeq(PERSONAL, 1, 6) \o Bar \o FalseStr \o Bar \o Exam,
          <<"m", "e", "m", "o">> \o Bar \o <<" ">> \o TrueStr \o <<" ">> \o Bar
              \o Exam}

\* How the classification request ends.
ClassifierReplies ==
    {[kind |-> k, content |-> <<>>] : k \in {"transport", "badjson", "nochoices"}}
    \cup {[kind |-> "ok", content |-> o] : o \in AIOutputs}

classifyWithAI(content, reply) ==
    IF reply.kind = "transport"
    THEN classifyWithRegex(content) \o Bar \o FalseStr \o Bar \o FallbackStr
    ELSE IF reply.kind \in {"badjson", "nochoices"}
    THEN classifyWithRegex(content) \o Bar \o FalseStr \o Bar \o ErrorStr
    ELSE TrimSpace(reply.content)

\* SaveMessageToRAG, step 2: the tier read from the classifier's answer
ParseTier(fullRes) ==
    LET parts == Split(fullRes)
        msgType == ToLower(TrimSpace(parts[1]))
    IN IF ~Contains(TierList, msgType) THEN CHAT ELSE msgType

ParseProactive(fullRes) ==
    LET parts == Split(fullRes)
    IN Len(parts) >= 2 /\ TrimSpace(parts[2]) = TrueStr

ParseReason(fullRes) ==
    LET parts == Split(fullRes)
    IN IF Len(parts) >= 3 THEN TrimSpace(parts[3]) ELSE <<>>

\* IsBotActive: is_active of the group's row; a group without a row counts as
\* active
IsBotActive(g) == IF g \in groupRows THEN groupActive[g] ELSE TRUE

\* IsRAGEnabled: rag_enabled of the group's row; a group without a row counts
\* as enabled
IsRAGEnabled(g) == IF g \in groupRows THEN groupRAG[g] ELSE TRUE

\* models.Group: both columns carry the tag default:true
DefaultRow == [is_active |-> TRUE, rag_enabled |-> TRUE]

\* A variant of FirstOrCreate whose new row holds Go's zero values.
FirstOrCreate_ZeroRow(g) ==
    IF g \in groupRows
    THEN [is_active |-> groupActive[g], rag_enabled |-> groupRAG[g]]
    ELSE [is_active |-> FALSE, rag_enabled |-> FALSE]

\* DB.FirstOrCreate(&group, models.Group{GroupID: groupID}): the row of the
\* group, a new one with the column defaults when there is none
FirstOrCreate(g) ==
    IF g \in groupRows
    THEN [is_active |-> groupActive[g], rag_enabled |-> groupRAG[g]]
    ELSE DefaultRow

NoGoroutine == [kind |-> "", msg |-> 0, tier |-> <<>>, reason |-> <<>>]

NoTrace ==
    [res |-> <<>>, fallback |-> FALSE, msgType |-> <<>>, isProactive |-> FALSE,
     reason |-> <<>>, spawned |-> FALSE, taskAt |-> -1, before |-> {},
     dbErr |-> FALSE]

RagInit ==
    /\ groupActive = [g \in Groups |-> TRUE]
    /\ history = <<>>
    /\ trace = NoTrace
    /\ goroutines = {}
    /\ tempMem = {}
    /\ namespaces = [ns \in {PERSONAL, CHAT} |-> {}]
    /\ embeddings = {}

\* executeToggleBot: the group's row is created if missing, is_active is set
\* and the row saved
executeToggleBot(g, active) ==
    /\ groupRows' = groupRows \cup {g}
    /\ groupActive' = [groupActive EXCEPT ![g] = active]
    /\ groupRAG' = [groupRAG EXCEPT ![g] = FirstOrCreate(g).rag_enabled]
    /\ UNCHANGED <<history, trace, goroutines, tempMem, namespaces, embeddings>>
    /\ UNCHANGED <<schedVars, retVars, toolResult, chatVars, toolCall>>

\* A variant of SaveMessageToRAG that goes on to classify and route a message
\* whose raw record could not be saved.
SaveMessageToRAG_IgnoreCreateError(m) ==
    /\ Len(history) < MaxMsgs
    /\ \E dbOk \in BOOLEAN, reply \in ClassifierReplies :
          LET id == Len(history) + 1
                   fullRes == classifyWithAI(m.content, reply)
                   msgType == ParseTier(fullRes)
                   isProactive == ParseProactive(fullRes)
                   proactiveReason == ParseReason(fullRes)
                   care == IF isProactive /\ IsBotActive(m.group)
                           THEN {[NoGoroutine EXCEPT !.kind = "proactive",
                                     !.msg = id, !.reason = proactiveReason]}
                           ELSE {}
                   store == IF msgType = TEMPORARY
                            THEN {[NoGoroutine EXCEPT !.kind = "temporary",
                                      !.msg = id]}
                            ELSE IF msgType \in {PERSONAL, CHAT}
                            THEN {[NoGoroutine EXCEPT !.kind = "embed",
                                      !.msg = id, !.tier = msgType]}
                            ELSE {}
               IN /\ history' = IF dbOk THEN Append(history, m) ELSE history
                  /\ trace' = [res |-> fullRes, fallback |-> reply.kind # "ok",
                                msgType |-> msgType, isProactive |-> isProactive,
                                reason |-> proactiveReason, spawned |-> care # {},
                                taskAt |-> -1, before |-> {}, dbErr |-> ~dbOk]
                  /\ goroutines' = goroutines \cup care \cup store
    /\ UNCHANGED <<groupActive, tempMem, namespaces, embeddings>>
    /\ UNCHANGED <<schedVars, retVars, toolVars>>

\* SaveMessageToRAG up to the goroutines it starts: the raw message is
\* recorded (or the call ends there: trace.dbErr remembers that the last call
\* did), classified, and routed.
SaveMessageToRAG(m) ==
    /\ Len(history) < MaxMsgs
    /\ \E dbOk \in BOOLEAN, reply \in ClassifierReplies :
          IF ~dbOk
          THEN /\ trace' = [trace EXCEPT !.dbErr = TRUE]
               /\ UNCHANGED <<history, goroutines>>
          ELSE LET id == Len(history) + 1
                   fullRes == classifyWithAI(m.content, reply)
                   msgType == ParseTier(fullRes)
                   isProactive == ParseProactive(fullRes)
                   proactiveReason == ParseReason(fullRes)
                   care == IF isProactive /\ IsBotActive(m.group)
                           THEN {[NoGoroutine EXCEPT !.kind = "proactive",
                                     !.msg = id, !.reason = proactiveReason]}
                           ELSE {}
                   store == IF msgType = TEMPORARY
                            THEN {[NoGoroutine EXCEPT !.kind = "temporary",
                                      !.msg = id]}
                            ELSE IF msgType \in {PERSONAL, CHAT}
                            THEN {[NoGoroutine EXCEPT !.kind = "embed",
                                      !.msg = id, !.tier = msgType]}
                            ELSE {}
               IN /\ history' = Append(history, m)
                  /\ trace' = [res |-> fullRes, fallback |-> reply.kind # "ok",
                                msgType |-> msgType, isProactive |-> isProactive,
                                reason |-> proactiveReason, spawned |-> care # {},
                                taskAt |-> -1, before |-> {}, dbErr |-> FALSE]
                  /\ goroutines' = goroutines \cup care \cup store
    /\ UNCHANGED <<groupActive, tempMem, namespaces, embeddings>>
    /\ UNCHANGED <<schedVars, retVars, toolVars>>

\* the proactive goroutine: the follow-up task is built and handed to AddTask
ProactiveGoroutine ==
    \E g \in goroutines :
       /\ g.kind = "proactive"
       /\ AddTaskCall(Adder,
              ProactiveTask(history[g.msg].user, history[g.msg].group, g.reason,
                            history[g.msg].content))
       /\ goroutines' = goroutines \ {g}
       /\ trace' = [trace EXCEPT !.taskAt = now,
                                 !.before = {t.id : t \in ListTasks(0, 0)}]
       /\ UNCHANGED <<groupActive, history, tempMem, namespaces, embeddings>>
       /\ UNCHANGED <<retVars, toolVars>>

\* the temporary goroutine: SaveTemporaryMemory with a TTL of 2 hours
TemporaryGoroutine ==
    \E g \in goroutines :
       /\ g.kind = "temporary"
       /\ goroutines' = goroutines \ {g}
       /\ tempMem' = IF rdbUp
                     THEN tempMem \cup
                          {[group |-> history[g.msg].group,
                            user |-> history[g.msg].user, msg |-> g.msg,
                            content |-> history[g.msg].content]}
                     ELSE tempMem
       /\ UNCHANGED <<groupActive, history, trace, namespaces, embeddings>>
       /\ UNCHANGED <<schedVars, retVars, toolVars>>

\* A variant of EmbedGoroutine that upserts every message into the chat
\* namespace.
EmbedGoroutine_AlwaysChat ==
    \E g \in goroutines :
       /\ g.kind = "embed"
       /\ \E ok \in BOOLEAN :
             IF ok
             THEN /\ namespaces' = [namespaces EXCEPT ![CHAT] = @ \cup {g.msg}]
                  /\ goroutines' = (goroutines \ {g}) \cup
                         {[NoGoroutine EXCEPT !.kind = "assoc", !.msg = g.msg]}
             ELSE /\ goroutines' = goroutines \ {g}
                  /\ UNCHANGED namespaces
       /\ UNCHANGED <<groupActive, history, trace, tempMem, embeddings>>
       /\ UNCHANGED <<schedVars, retVars, toolVars>>

\* A variant of EmbedGoroutine that starts the association goroutine whether
\* or not the embedding and the upsert succeeded.
EmbedGoroutine_AssocAnyway ==
    \E g \in goroutines :
       /\ g.kind = "embed"
       /\ \E ok \in BOOLEAN :
             LET namespace == IF g.tier = PERSONAL THEN PERSONAL ELSE CHAT
             IN /\ namespaces' = IF ok
                                 THEN [namespaces EXCEPT
                                          ![namespace] = @ \cup {g.msg}]
                                 ELSE namespaces
                /\ goroutines' = (goroutines \ {g}) \cup
                       {[NoGoroutine EXCEPT !.kind = "assoc", !.msg = g.msg]}
       /\ UNCHANGED <<groupActive, history, trace, tempMem, embeddings>>
       /\ UNCHANGED <<schedVars, retVars, toolVars>>

\* the long-term goroutine: embedding, then the upsert into the namespace of
\* the tier; when both succeed the goroutine writing the association starts
EmbedGoroutine ==
    \E g \in goroutines :
       /\ g.kind = "embed"
       /\ \E ok \in BOOLEAN :
             LET namespace == IF g.tier = PERSONAL THEN PERSONAL ELSE CHAT
             IN IF ok
                THEN /\ namespaces' = [namespaces EXCEPT
                                          ![namespace] = @ \cup {g.msg}]
                     /\ goroutines' = (goroutines \ {g}) \cup
                            {[NoGoroutine EXCEPT !.kind = "assoc", !.msg = g.msg]}
                ELSE /\ goroutines' = goroutines \ {g}
                     /\ UNCHANGED namespaces
       /\ UNCHANGED <<groupActive, history, trace, tempMem, embeddings>>
       /\ UNCHANGED <<schedVars, retVars, toolVars>>

\* the association goroutine: the member_embeddings row of a stored vector
AssocGoroutine ==
    \E g \in goroutines :
       /\ g.kind = "assoc"
       /\ goroutines' = goroutines \ {g}
       /\ embeddings' = embeddings \cup
              {[vector |-> g.msg, summary |-> history[g.msg].content,
                ref |-> g.msg]}
       /\ UNCHANGED <<groupActive, history, trace, tempMem, namespaces>>
       /\ UNCHANGED <<schedVars, retVars, toolVars>>

\* ------------------------------------------------------------ retrieval
\* similarity scores in hundredths
Scores == {50, 60, 90, 95}
TopK == 3
ApiText == <<"A", "P", "I">>
\* the ContentSummary a match hydrates to: none (no row), a plain text, a
\* text with a technical keyword
Summaries == {<<>>, Water, ApiText}
TechWords ==
    {<<"e", "r", "r">>, <<"c", "o", "d", "e">>, <<"a", "p", "i">>,
     <<"f", "u", "n", "c">>}

\* QueryWithScore: at most topK matches, by descending score
SortedScores(n) ==
    {sc \in [1..n -> Scores] : \A i \in 1..(n - 1) : sc[i] >= sc[i + 1]}

MatchLists(ns) ==
    UNION {{[i \in 1..n |-> [id |-> <<ns, i>>, score |-> sc[i], summary |-> tx[i]]] :
               sc \in SortedScores(n), tx \in [1..n -> Summaries]} :
           n \in 0..(IF MaxMatches < TopK THEN MaxMatches ELSE TopK)}

IdleAnswer ==
    [pc |-> "idle", queried |-> FALSE, contextTexts |-> <<>>,
     isPersonalScene |-> FALSE, isTechScene |-> FALSE, maxScore |-> 0]

\* no retrieval is under way
RetIdle ==
    /\ pMatches = <<>>
    /\ cMatches = <<>>
    /\ answer = IdleAnswer

\* the index answers of one retrieval
RetInit ==
    /\ pMatches \in MatchLists("p")
    /\ cMatches \in MatchLists("c")
    /\ answer = IdleAnswer

\* A variant of MatchLoop that keeps the context ordered by descending score.
RECURSIVE InsertByScore(_, _)
InsertByScore(ctx, m) ==
    IF ctx = <<>> THEN <<m>>
    ELSE IF Head(ctx).score >= m.score
    THEN <<Head(ctx)>> \o InsertByScore(Tail(ctx), m)
    ELSE <<m>> \o ctx

RECURSIVE MatchLoop_Merged(_, _, _)
MatchLoop_Merged(matches, isPersonalNs, a) ==
    IF Len(matches) = 0 THEN a
    ELSE LET m == matches[1]
             low == ToLower(m.summary)
         IN MatchLoop_Merged(SubSeq(matches, 2, Len(matches)), isPersonalNs,
                [a EXCEPT
                   !.isPersonalScene = @ \/ (isPersonalNs /\ m.score > 70),
                   !.maxScore = IF m.score > @ THEN m.score ELSE @,
                   !.contextTexts = IF m.summary # <<>> THEN InsertByScore(@, m)
                                    ELSE @,
                   !.isTechScene = @ \/ (/\ ~isPersonalNs
                                         /\ m.summary # <<>>
                                         /\ \E w \in TechWords : Contains(low, w))])

\* One pass of the loop over a namespace's matches: the score thresholds, the
\* running maximum, and the context entry of every match that hydrates.
RECURSIVE MatchLoop(_, _, _)
MatchLoop(matches, isPersonalNs, a) ==
    IF Len(matches) = 0 THEN a
    ELSE LET m == matches[1]
             low == ToLower(m.summary)
         IN MatchLoop(SubSeq(matches, 2, Len(matches)), isPersonalNs,
                [a EXCEPT
                   !.isPersonalScene = @ \/ (isPersonalNs /\ m.score > 70),
                   !.maxScore = IF m.score > @ THEN m.score ELSE @,
                   !.contextTexts = IF m.summary # <<>> THEN Append(@, m) ELSE @,
                   !.isTechScene = @ \/ (/\ ~isPersonalNs
                                         /\ m.summary # <<>>
                                         /\ \E w \in TechWords : Contains(low, w))])

\* GetAIResponse, step 1: the personal namespace is queried and walked, then
\* the chat namespace; without a query embedding nothing is retrieved.
Retrieve ==
    /\ answer.pc = "idle"
    /\ \E embOk \in BOOLEAN :
          answer' = IF embOk
                    THEN [MatchLoop(cMatches, FALSE,
                              MatchLoop(pMatches, TRUE, IdleAnswer))
                          EXCEPT !.pc = "done", !.queried = TRUE]
                    ELSE [IdleAnswer EXCEPT !.pc = "done"]
    /\ UNCHANGED <<pMatches, cMatches>>
    /\ UNCHANGED <<schedVars, ragVars, toolVars>>

\* ------------------------------------------------------------ tool layer
\* ToolResult of a tool call: Success, the tasks in Data and their number,
\* the kind of its Message, the task id the message shows and the flag in Data
NoResult ==
    [tool |-> "", success |-> TRUE, count |-> 0, tasks |-> {}, msg |-> "",
     id |-> NoID, value |-> TRUE]

\* executeListTimerTasks: ListTasks for the caller's group and, unless a super
\* user asks, the caller's user; an empty list is reported as "no active task"
executeListTimerTasks(groupID, userID, isSuperUser) ==
    LET queryUserID == IF isSuperUser THEN 0 ELSE userID
        tasks == ListTasks(groupID, queryUserID)
    IN [NoResult EXCEPT !.tool = "list", !.count = Cardinality(tasks),
                        !.tasks = tasks]

\* the list_timer_tasks tool is called
ExecuteListTimerTasks ==
    /\ \E g \in Groups, u \in Users, isSuperUser \in BOOLEAN :
          toolResult' = executeListTimerTasks(g, u, isSuperUser)
    /\ UNCHANGED <<schedVars, ragVars, retVars, chatVars, cfgVars>>

\* executeRemoveTimerTask: the remove_timer_task tool calls RemoveTask
ExecuteRemoveTimerTask ==
    /\ \E id \in RemoveIds : RemoveTaskCall(Remover, id)
    /\ UNCHANGED appVars

\* the requests the add_timer_task tool gets in the tool-layer runs: one-shot
\* tasks of both users due at once (delay_seconds 0), a periodic task, one
\* whose expression does not parse, and a request whose type is neither "once"
\* nor "periodic"
Daily == "daily"
ToolInputs ==
    {ToolTask("once", 1, 1, 0, ""), ToolTask("once", 2, 1, 0, ""),
     ToolTask("periodic", 2, 1, 0, GoodCron),
     ToolTask("periodic", 2, 1, 0, BadCron),
     ToolTask(Daily, 1, 1, 0, "")}

\* ----------------------------------------------------------- ExecuteTool
\* AvailableTools: the names ExecuteTool dispatches on, and one it does not know
ToolNames ==
    {"toggle_bot", "get_bot_status", "toggle_rag", "get_rag_status",
     "add_timer_task", "list_timer_tasks", "remove_timer_task"}
NoSuchTool == "no_such_tool"

\* A variant of RequireAdmin in which only toggle_bot is marked.
RequireAdmin_BotOnly(toolName) == toolName = "toggle_bot"

\* AvailableTools: the tools marked RequireAdmin
RequireAdmin(toolName) == toolName \in {"toggle_bot", "toggle_rag"}

\* groupID of a private chat
PrivateChat == 0
CallGroups == Groups \cup {PrivateChat}

\* a call of ExecuteTool: the tool, the caller, and the arguments: ok says
\* that the argument the tool needs is there with the right type, flag is
\* active / enabled, task is the request of add_timer_task, id the id of
\* remove_timer_task; pending while AddTask or RemoveTask runs; created when
\* FirstOrCreate made the group's row
NoCall ==
    [tool |-> "", group |-> 0, user |-> 0, super |-> FALSE, ok |-> TRUE,
     flag |-> TRUE, task |-> ZeroTask, id |-> NoID, pending |-> FALSE,
     created |-> FALSE]

\* the groups table an earlier run left: every group has its row
ConfigStored ==
    /\ toolCall = NoCall
    /\ groupRows = Groups
    /\ groupRAG = [g \in Groups |-> TRUE]

\* an empty groups table
ConfigFresh ==
    /\ toolCall = NoCall
    /\ groupRows = {}
    /\ groupRAG = [g \in Groups |-> TRUE]

Failure(toolName, kind) ==
    [NoResult EXCEPT !.tool = toolName, !.success = FALSE, !.msg = kind]

Success(toolName) == [NoResult EXCEPT !.tool = toolName]

\* DB.Save(&group): every column of the row is written
Save(g, row) ==
    /\ groupRows' = groupRows \cup {g}
    /\ groupActive' = [groupActive EXCEPT ![g] = row.is_active]
    /\ groupRAG' = [groupRAG EXCEPT ![g] = row.rag_enabled]

\* everything ExecuteTool's configuration tools leave alone
ConfigFrame ==
    /\ UNCHANGED <<history, trace, goroutines, tempMem, namespaces, embeddings>>
    /\ UNCHANGED <<schedVars, retVars, chatVars>>

\* executeToggleBot / executeToggleRAG: a missing or mistyped argument and a
\* database error are failures; otherwise the row is found or created, the
\* column is set and the row saved
Toggle(call, row) ==
    /\ IF ~call.ok
       THEN /\ toolCall' = call
            /\ toolResult' = Failure(call.tool, "invalid_arg")
            /\ UNCHANGED <<groupRows, groupActive, groupRAG>>
       ELSE \E db \in {"find_error", "save_error", "nil"} :
               /\ toolCall' = [call EXCEPT
                                  !.created = /\ db # "find_error"
                                              /\ call.group \notin groupRows]
               /\ toolResult' =
                     IF db = "nil"
                     THEN [Success(call.tool) EXCEPT !.value = call.flag]
                     ELSE Failure(call.tool, "db_error")
               /\ IF db = "find_error"
                  THEN UNCHANGED <<groupRows, groupActive, groupRAG>>
                  ELSE IF db = "save_error"
                  THEN Save(call.group, FirstOrCreate(call.group))
                  ELSE Save(call.group, row)
    /\ ConfigFrame

executeToggleBotTool(call) ==
    Toggle(call, [FirstOrCreate(call.group) EXCEPT !.is_active = call.flag])

executeToggleRAG(call) ==
    Toggle(call, [FirstOrCreate(call.group) EXCEPT !.rag_enabled = call.flag])

\* executeGetBotStatus / executeGetRAGStatus: a group without a row is
\* reported on; any other database error is a failure
executeGetBotStatus(g, dbOk) ==
    IF ~dbOk THEN Failure("get_bot_status", "db_error")
    ELSE [Success("get_bot_status") EXCEPT
             !.value = IF g \in groupRows THEN groupActive[g] ELSE TRUE]

executeGetRAGStatus(g, dbOk) ==
    IF ~dbOk THEN Failure("get_rag_status", "db_error")
    ELSE [Success("get_rag_status") EXCEPT
             !.value = IF g \in groupRows THEN groupRAG[g] ELSE TRUE]

\* a tool that only reads: its result, nothing else changes
Reads(call, result) ==
    /\ toolCall' = call
    /\ toolResult' = result
    /\ UNCHANGED <<schedVars, ragVars, retVars, chatVars, groupRows, groupRAG>>

\* executeAddTimerTask up to the call of AddTask, which gets a copy of task;
\* there is no result before AddTask returns
executeAddTimerTask(call) ==
    IF call.task.type \in {"once", "periodic"} /\ ~call.ok
    THEN Reads(call, Failure(call.tool, "invalid_arg"))
    ELSE /\ AddTaskCall(Adder, call.task)
         /\ toolCall' = [call EXCEPT !.pending = TRUE]
         /\ toolResult' = NoResult
         /\ UNCHANGED <<ragVars, retVars, chatVars, groupRows, groupRAG>>

\* executeRemoveTimerTask up to the call of RemoveTask
executeRemoveTimerTask(call) ==
    IF ~call.ok \/ call.id = NoID
    THEN Reads(call, Failure(call.tool, "invalid_arg"))
    ELSE /\ RemoveTaskCall(Remover, call.id)
         /\ toolCall' = [call EXCEPT !.pending = TRUE]
         /\ toolResult' = NoResult
         /\ UNCHANGED <<ragVars, retVars, chatVars, groupRows, groupRAG>>

\* AddTask or RemoveTask has returned: the ToolResult.  The id in the success
\* message of add_timer_task is task.ID of executeAddTimerTask's own task.
ToolReturn ==
    /\ toolCall.pending
    /\ pc[Adder] = "idle" /\ pc[Remover] = "idle"
    /\ toolCall' = [toolCall EXCEPT !.pending = FALSE]
    /\ toolResult' =
          IF toolCall.tool = "add_timer_task"
          THEN IF ret[Adder] = "err" THEN Failure(toolCall.tool, "error")
               ELSE [Success(toolCall.tool) EXCEPT !.id = toolCall.task.id]
          ELSE IF ret[Remover] = "err" THEN Failure(toolCall.tool, "error")
               ELSE Success(toolCall.tool)
    /\ UNCHANGED <<schedVars, ragVars, retVars, chatVars, groupRows, groupRAG>>

\* ExecuteTool: the permission check, then the switch on the tool's name
ExecuteTool(toolName, args, groupID, userID, isSuperUser) ==
    LET call == [NoCall EXCEPT !.tool = toolName, !.group = groupID,
                               !.user = userID, !.super = isSuperUser,
                               !.ok = args.ok, !.flag = args.flag,
                               !.task = args.task, !.id = args.id]
    IN
    /\ ~toolCall.pending
    /\ IF RequireAdmin(toolName) /\ ~isSuperUser
       THEN Reads(call, Failure(toolName, "admin_only"))
       ELSE CASE toolName = "toggle_bot" -> executeToggleBotTool(call)
              [] toolName = "get_bot_status" ->
                    \E dbOk \in BOOLEAN :
                       Reads(call, executeGetBotStatus(groupID, dbOk))
              [] toolName = "toggle_rag" -> executeToggleRAG(call)
              [] toolName = "get_rag_status" ->
                    \E dbOk \in BOOLEAN :
                       Reads(call, executeGetRAGStatus(groupID, dbOk))
              [] toolName = "add_timer_task" -> executeAddTimerTask(call)
              [] toolName = "list_timer_tasks" ->
                    Reads(call, executeListTimerTasks(groupID, userID, isSuperUser))
              [] toolName = "remove_timer_task" -> executeRemoveTimerTask(call)
              [] OTHER -> Reads(call, Failure(toolName, "unknown_tool"))

\* the arguments the model hands to ExecuteTool
NoArgs == [ok |-> TRUE, flag |-> TRUE, task |-> ZeroTask, id |-> NoID]

FlagArgs == {[NoArgs EXCEPT !.ok = ok, !.flag = b] : ok, b \in BOOLEAN}

AddArgs(g, u) ==
    {[NoArgs EXCEPT !.ok = ok, !.task = ToolTask(type, u, g, 0, GoodCron)] :
        ok \in BOOLEAN, type \in {"once", "periodic"}}

RemoveArgs ==
    {[NoArgs EXCEPT !.id = id] : id \in RemoveIds \cup {NoID, toolResult.id}}

ArgsOf(toolName, g, u) ==
    IF toolName \in {"toggle_bot", "toggle_rag"} THEN FlagArgs
    ELSE IF toolName = "add_timer_task" THEN AddArgs(g, u)
    ELSE IF toolName = "remove_timer_task" THEN RemoveArgs
    ELSE {NoArgs}

\* a tool call made by the model for a message of user u in group g
CallTool(names, users, groups) ==
    \E toolName \in names, u \in users, g \in groups,
       isSuperUser \in BOOLEAN :
       \E args \in ArgsOf(toolName, g, u) :
          ExecuteTool(toolName, args, g, u, isSuperUser)

TimerTools == {"add_timer_task", "list_timer_tasks", "remove_timer_task"}

\* ------------------------------------------- proactive interjection
\* main: the handler registered with zero.OnMessage, for a group message that
\* does not mention the bot and has meaningful content.
Cooldown == 5                      \* 5 * time.Minute

NoHandling == [pc |-> "idle", group |-> 0, n |-> 0]

ChatIdle ==
    /\ minute = 0
    /\ handled = 0
    /\ proactiveCooldown = EmptyMap
    /\ handling = NoHandling
    /\ interjectors = {}
    /\ interjections = {}
    /\ mapAccess = {}

\* two goroutines are inside an access of the map and one of them writes
Racing ==
    \E a, b \in mapAccess : a # b /\ (a.write \/ b.write)

\* the handler is called for a message of group g with the bot active there:
\* it starts the lookup proactiveCooldown[groupID]
HandleMessage(g) ==
    /\ handling.pc = "idle"
    /\ handled < MaxChatMsgs
    /\ IsBotActive(g)
    /\ handled' = handled + 1
    /\ handling' = [pc |-> "lookup", group |-> g, n |-> handled + 1]
    /\ mapAccess' = mapAccess \cup {[who |-> 0, write |-> FALSE]}
    /\ UNCHANGED <<minute, proactiveCooldown, interjectors, interjections>>
    /\ UNCHANGED <<schedVars, ragVars, retVars, toolResult, cfgVars>>

\* the lookup returns: within the cooldown nothing more is done, otherwise
\* the goroutine asking for a proactive reply is started
HandleDecide ==
    /\ handling.pc = "lookup"
    /\ LET g == handling.group
           ok == g \in DOMAIN proactiveCooldown
       IN interjectors' =
             IF ok /\ minute - proactiveCooldown[g] < Cooldown
             THEN interjectors
             ELSE interjectors \cup
                     {[n |-> handling.n, group |-> g, pc |-> "respond"]}
    /\ handling' = NoHandling
    /\ mapAccess' = mapAccess \ {[who |-> 0, write |-> FALSE]}
    /\ UNCHANGED <<minute, handled, proactiveCooldown, interjections>>
    /\ UNCHANGED <<schedVars, ragVars, retVars, toolResult, cfgVars>>

\* the goroutine: GetProactiveResponse returns; with a reply to send the
\* assignment proactiveCooldown[groupID] = time.Now() starts
InterjectRespond ==
    \E j \in interjectors :
       /\ j.pc = "respond"
       /\ \E shouldReply \in BOOLEAN :
             IF shouldReply
             THEN /\ interjectors' = (interjectors \ {j}) \cup
                                        {[j EXCEPT !.pc = "assign"]}
                  /\ mapAccess' = mapAccess \cup {[who |-> j.n, write |-> TRUE]}
             ELSE /\ interjectors' = interjectors \ {j}
                  /\ UNCHANGED mapAccess
       /\ UNCHANGED <<minute, handled, proactiveCooldown, handling, interjections>>
       /\ UNCHANGED <<schedVars, ragVars, retVars, toolResult, cfgVars>>

\* the goroutine: the assignment to the map is done
InterjectAssign ==
    \E j \in interjectors :
       /\ j.pc = "assign"
       /\ proactiveCooldown' = Put(proactiveCooldown, j.group, minute)
       /\ mapAccess' = mapAccess \ {[who |-> j.n, write |-> TRUE]}
       /\ interjectors' = (interjectors \ {j}) \cup {[j EXCEPT !.pc = "send"]}
       /\ UNCHANGED <<minute, handled, handling, interjections>>
       /\ UNCHANGED <<schedVars, ragVars, retVars, toolResult, cfgVars>>

\* the goroutine: ctx.Send of the reply
InterjectSend ==
    \E j \in interjectors :
       /\ j.pc = "send"
       /\ interjections' = interjections \cup
              {[n |-> j.n, group |-> j.group, at |-> minute]}
       /\ interjectors' = interjectors \ {j}
       /\ UNCHANGED <<minute, handled, proactiveCooldown, handling, mapAccess>>
       /\ UNCHANGED <<schedVars, ragVars, retVars, toolResult, cfgVars>>

\* An unsynchronised access of a Go map while another goroutine writes it: the
\* runtime may go on, or stop the process with "concurrent map read and map
\* write" / "concurrent map writes".
MapFault ==
    /\ Racing
    /\ handling' = [NoHandling EXCEPT !.pc = "fatal"]
    /\ interjectors' = {}
    /\ mapAccess' = {}
    /\ UNCHANGED <<minute, handled, proactiveCooldown, interjections>>
    /\ UNCHANGED <<schedVars, ragVars, retVars, toolResult, cfgVars>>

\* a minute passes
ChatTick ==
    /\ minute < MaxMinutes
    /\ handling.pc # "fatal"
    /\ minute' = minute + 1
    /\ UNCHANGED <<handled, proactiveCooldown, handling, interjectors,
                   interjections, mapAccess>>
    /\ UNCHANGED <<schedVars, ragVars, retVars, toolResult, cfgVars>>

\* no tool has been called and no message handled
ToolInit == toolResult = NoResult /\ ChatIdle /\ ConfigStored

\* ------------------------------------------- a store left by an earlier run
\* What the durable store may hold when the process starts: tasks an earlier
\* process (or another writer) left there.
StoredA == <<"task", 0, 1>>        \* index entry whose content is gone
StoredB == <<"task", 0, 2>>        \* a one-shot task of user 2, due
StoredC == ProactiveID(0)          \* a proactive follow-up for user 1, due
StoredD == <<"task", 0, 3>>        \* one-shot content that does not decode
StoredP == <<"task", 0, 4>>        \* a periodic task of user 1 in group 2
StoredQ == <<"task", 0, 5>>        \* a periodic task whose expression is malformed
StoredR == <<"task", 0, 6>>        \* periodic content that does not decode

\* the original messages a stored proactive follow-up may carry: any text of
\* a group message, a "|" included
MsgWithBar == <<"kao", "|", "shi">>
OrigMsgs == {MsgInterview, MsgWithBar}

StoredOnceTask(id) ==
    IF id = StoredC
    THEN [id |-> id, type |-> "once", content |-> Exam \o Bar \o MsgInterview,
          group_id |-> 1, user_id |-> 1, time_expr |-> "", target_at |-> 0]
    ELSE [id |-> id, type |-> "once", content |-> Water, group_id |-> 1,
          user_id |-> 2, time_expr |-> "", target_at |-> 0]

StoredPeriodicTask(id) ==
    [id |-> id, type |-> "periodic", content |-> Water, group_id |-> 2,
     user_id |-> 1, time_expr |-> IF id = StoredQ THEN BadCron ELSE GoodCron,
     target_at |-> 0]

StoredInit ==
    /\ now = 0
    /\ nano = 0
    /\ rdbUp \in BOOLEAN
    /\ \E S \in SUBSET {StoredA, StoredB, StoredC, StoredD}, m \in OrigMsgs :
          /\ zset = [id \in S |-> 0]
          /\ hashOnce = [id \in S \ {StoredA} |->
                            IF id = StoredD THEN Garbage
                            ELSE IF id = StoredC
                            THEN Marshal([StoredOnceTask(id) EXCEPT
                                             !.content = Exam \o Bar \o m])
                            ELSE Marshal(StoredOnceTask(id))]
    /\ \E S \in SUBSET {StoredP, StoredQ, StoredR} :
          hashPeriodic = [id \in S |-> IF id = StoredR THEN Garbage
                                       ELSE Marshal(StoredPeriodicTask(id))]
    /\ cronEntries = {}
    /\ nextEntry = 1
    /\ PeriodicEntries = EmptyMap
    /\ schedulerMu = NoOne
    /\ pc = [c \in Clients |-> "idle"]
    /\ arg = [c \in Clients |-> ZeroTask]
    /\ ret = [c \in Clients |-> "nil"]
    /\ poll = IdlePoll
    /\ reload = FreshReload
    /\ sent = EmptyMap
    /\ fired = {}
    /\ firedLate = {}
    /\ removed = {}
    /\ justRemoved = NoID

\* ------------------------------------------------------- specifications
\* the calls made while goroutines interleave: a one-shot task, a periodic
\* task, and a periodic task whose expression does not parse
ConcInputs ==
    {ToolTask("once", 1, 1, 1, ""), ToolTask("periodic", 1, 1, 0, GoodCron),
     ToolTask("periodic", 1, 1, 0, BadCron)}

Init == SchedInit /\ RagInit /\ RetIdle /\ ToolInit

\* every interleaving of the scheduler's goroutines
Next ==
    \/ nano < MaxConcAdds /\ ExecuteAddTimerTask(ConcInputs)
    \/ AddTaskHSetPeriodic(Adder)
    \/ AddTaskZAdd(Adder)
    \/ ExecuteRemoveTimerTask
    \/ RemoveTaskHDelPeriodic(Remover)
    \/ RemoveTaskZRem(Remover)
    \/ RemoveTaskHDel(Remover)
    \/ PollSweep
    \/ PollDone
    \/ PollFetch
    \/ PollStale
    \/ PollSend
    \/ PollZRem
    \/ PollHDel
    \/ ReloadRead
    \/ ReloadRegister
    \/ CronFire
    \/ Tick
    \/ Restart

Spec == Init /\ [][Next]_vars

\* one operation at a time, each run to its end before the next begins.  AddTask
\* writes the content before the index entry and every removal takes the index
\* entry first, so with no operation overlapping a poll cycle the HGet of the
\* poller always finds the content: PollStale has no step here.
NextSeq ==
    \/ Busy = {} /\ ExecuteAddTimerTask(TaskInputs)
    \/ Busy = {Adder} /\ AddTaskHSetPeriodic(Adder)
    \/ Busy = {Adder} /\ AddTaskZAdd(Adder)
    \/ Busy = {} /\ ExecuteRemoveTimerTask
    \/ Busy = {Remover} /\ RemoveTaskHDelPeriodic(Remover)
    \/ Busy = {Remover} /\ RemoveTaskZRem(Remover)
    \/ Busy = {Remover} /\ RemoveTaskHDel(Remover)
    \/ Busy = {} /\ PollSweep
    \/ Busy = {"poller"} /\ PollDone
    \/ Busy = {"poller"} /\ PollFetch
    \/ Busy = {"poller"} /\ PollSend
    \/ Busy = {"poller"} /\ PollZRem
    \/ Busy = {"poller"} /\ PollHDel
    \/ Busy = {} /\ ReloadRead
    \/ Busy = {"reload"} /\ ReloadRegister
    \/ Busy = {} /\ CronFire
    \/ Busy = {} /\ Tick
    \/ Restart

SpecSeq == Init /\ [][NextSeq]_vars

\* the goroutines of the message recorded last have all run
Settled == goroutines = {} /\ pc[Adder] = "idle"

\* the memory pipeline with the scheduler's AddTask under it, one message
\* after the other
NextRAG ==
    \/ Settled /\ \E m \in Messages : SaveMessageToRAG(m)
    \/ ProactiveGoroutine
    \/ AddTaskZAdd(Adder)
    \/ TemporaryGoroutine
    \/ EmbedGoroutine
    \/ AssocGoroutine
    \/ \E g \in Groups, active \in BOOLEAN : executeToggleBot(g, active)
    \/ Tick

SpecRAG == Init /\ [][NextRAG]_vars

\* the tool layer at one instant: add_timer_task calls run one after the
\* other, while remove_timer_task calls and the poller interleave freely with
\* each other
NextTools ==
    \/ Busy = {} /\ ExecuteAddTimerTask(ToolInputs)
    \/ Busy = {Adder} /\ AddTaskHSetPeriodic(Adder)
    \/ Busy = {Adder} /\ AddTaskZAdd(Adder)
    \/ pc[Adder] = "idle" /\ ExecuteRemoveTimerTask
    \/ RemoveTaskHDelPeriodic(Remover)
    \/ RemoveTaskZRem(Remover)
    \/ RemoveTaskHDel(Remover)
    \/ Busy = {} /\ ExecuteListTimerTasks
    \/ pc[Adder] = "idle" /\ PollSweep
    \/ PollDone
    \/ PollFetch
    \/ PollStale
    \/ PollSend
    \/ PollZRem
    \/ PollHDel

SpecTools == Init /\ [][NextTools]_vars

\* a process started on a store an earlier run left behind: the poller and the
\* reload goroutine work through it, the list tool reads it
InitStored == StoredInit /\ RagInit /\ RetIdle /\ ToolInit

NextStored ==
    \/ Busy = {} /\ ReloadRead
    \/ ReloadRegister
    \/ Busy = {} /\ PollSweep
    \/ PollDone
    \/ PollFetch
    \/ PollStale
    \/ PollSend
    \/ PollZRem
    \/ PollHDel
    \/ Busy = {} /\ ExecuteListTimerTasks
    \/ Busy = {} /\ CronFire

SpecStored == InitStored /\ [][NextStored]_vars

\* one retrieval over every answer the index may give
InitRetrieve == SchedInit /\ RagInit /\ RetInit /\ ToolInit

NextRetrieve == Retrieve

SpecRetrieve == InitRetrieve /\ [][NextRetrieve]_vars

\* the OnMessage handler and the goroutines it starts, every interleaving
NextChat ==
    \/ \E g \in Groups : HandleMessage(g)
    \/ HandleDecide
    \/ InterjectRespond
    \/ InterjectAssign
    \/ InterjectSend
    \/ MapFault
    \/ ChatTick

SpecChat == Init /\ [][NextChat]_vars

\* tool calls on a new database, one after the other: every tool, called by
\* one user in a group chat
InitToolCalls ==
    SchedInit /\ RagInit /\ RetIdle /\ toolResult = NoResult /\ ChatIdle
        /\ ConfigFresh

NextToolCalls ==
    \/ Busy = {} /\ CallTool(ToolNames \cup {NoSuchTool}, {1}, Groups)
    \/ AddTaskHSetPeriodic(Adder)
    \/ AddTaskZAdd(Adder)
    \/ RemoveTaskHDelPeriodic(Remover)
    \/ RemoveTaskZRem(Remover)
    \/ RemoveTaskHDel(Remover)
    \/ Busy = {} /\ ToolReturn

SpecToolCalls == InitToolCalls /\ [][NextToolCalls]_vars

\* the timer tools, called by every user in a group chat and in a private chat
NextTimerTools ==
    \/ Busy = {} /\ CallTool(TimerTools, Users, CallGroups)
    \/ AddTaskHSetPeriodic(Adder)
    \/ AddTaskZAdd(Adder)
    \/ RemoveTaskHDelPeriodic(Remover)
    \/ RemoveTaskZRem(Remover)
    \/ RemoveTaskHDel(Remover)
    \/ Busy = {} /\ ToolReturn

SpecTimerTools == InitToolCalls /\ [][NextTimerTools]_vars


\* --------------------------------------------------------------- claims
\* the step on which a call of AddTask for a one-shot task returns nil
AddOnceReturns ==
    /\ pc[Adder] = "add_zadd"
    /\ pc'[Adder] = "idle"
    /\ ret'[Adder] = "nil"
    /\ arg[Adder].type = "once"

\* the step on which a poll cycle ends
CycleEnds == poll.pc = "fetch" /\ poll'.pc = "idle"

\* C1: with the store available, when AddTask returns nil for a once task,
\* ListTasks with the task's group and user, or with zero filters, returns the
\* task; and when a poll cycle ends, every once task that was due when the cycle
\* began (0 <= target_at <= now) has been handed to GlobalSender exactly once
\* and is no longer returned by ListTasks.
C1_ListedThenDeliveredOnce ==
    [][ /\ AddOnceReturns =>
              \A g \in {0, arg[Adder].group_id}, u \in {0, arg[Adder].user_id} :
                 arg[Adder] \in ListTasks(g, u)'
        /\ CycleEnds =>
              \A id \in poll.expect :
                 /\ Count(sent', id) = 1
                 /\ \A t \in ListTasks(0, 0)' : t.id # id
      ]_vars

\* a tool-made once task has been delivered once and is gone from the store
C1_Witness ==
    \E id \in DOMAIN sent :
       /\ id[1] = "task"
       /\ sent[id] = 1
       /\ id \notin DOMAIN hashOnce
       /\ id \notin DOMAIN zset
       /\ poll.pc = "idle"

\* C2 (as claimed): in every interleaving, once RemoveTask(id) has returned no
\* cron entry delivers for id any more, and id is not registered again.
C2_RemovedStaysRemoved ==
    /\ firedLate = {}
    /\ \A id \in removed : id \notin DOMAIN PeriodicEntries

\* C3: over any number of poll cycles GlobalSender is called at most once per
\* once task id, and every id the running cycle has dealt with is gone from the
\* time index and from the content hash, whether or not the send got through.
C3_AtMostOnce ==
    /\ \A id \in DOMAIN sent : sent[id] <= 1
    /\ poll.pc = "fetch" =>
          \A j \in 1..(poll.i - 1) :
             poll.ids[j] \notin DOMAIN zset /\ poll.ids[j] \notin DOMAIN hashOnce

\* a send that did not get through, the cleanup of its task under way all the
\* same
C3_Witness ==
    /\ poll.pc = "hdel"
    /\ ~poll.ok
    /\ Count(sent, poll.ids[poll.i]) = 1
    /\ poll.ids[poll.i] \notin DOMAIN zset

\* the message recorded last
LastMsg == history[Len(history)]

\* the tasks ListTasks returns now that it did not return when the proactive
\* goroutine of the last message called AddTask
NewTasks == {t \in ListTasks(0, 0) : t.id \notin trace.before}

\* C4 (as claimed, with the bot active and the store available): once the
\* goroutines of a recorded message with triggered = true have run, exactly one
\* new once task is returned by ListTasks, due 4 hours after the call, for the
\* message's group and user, its id prefixed proactive_, its content the reason
\* and the message.
C4_OneNewTaskPerTrigger ==
    (Len(history) > 0 /\ trace.isProactive /\ trace.spawned /\ rdbUp /\ Settled)
    => /\ Cardinality(NewTasks) = 1
       /\ \A t \in NewTasks :
             /\ t \in ListTasks(LastMsg.group, LastMsg.user)
             /\ HasProactivePrefix(t.id)
             /\ t.type = "once"
             /\ t.target_at = trace.taskAt + FixedDelay
             /\ t.content = trace.reason \o Bar \o LastMsg.content

\* the stores the last message has been written to
InTemp == \E r \in tempMem : r.msg = Len(history)
InNamespace(ns) == Len(history) \in namespaces[ns]
HasAssoc == \E r \in embeddings : r.ref = Len(history)

\* C5: a message classified temporary is in no namespace and has no association
\* row; a message classified personal is not in the TTL cache nor in the chat
\* namespace; a message classified chat is not in the TTL cache nor in the
\* personal namespace.
C5_TierIsolation ==
    Len(history) > 0 =>
       /\ trace.msgType = TEMPORARY =>
             ~InNamespace(PERSONAL) /\ ~InNamespace(CHAT) /\ ~HasAssoc
       /\ trace.msgType = PERSONAL => ~InTemp /\ ~InNamespace(CHAT)
       /\ trace.msgType = CHAT => ~InTemp /\ ~InNamespace(PERSONAL)
       /\ trace.msgType \notin Tiers =>
             ~InTemp /\ ~InNamespace(PERSONAL) /\ ~InNamespace(CHAT) /\ ~HasAssoc

\* a temporary message in the TTL cache and a personal one in its namespace
C5_Witness ==
    /\ tempMem # {}
    /\ namespaces[PERSONAL] # {}
    /\ embeddings # {}
    /\ Settled

\* C6 (as claimed): the tier read from any classifier answer is one of the
\* three tiers, a first field that is none of them (after trimming and
\* lower-casing) gives chat, and an answer without a second field gives
\* triggered = false.
C6_DefensiveParsing ==
    Len(history) > 0 =>
       LET parts == Split(trace.res)
       IN /\ trace.msgType \in Tiers
          /\ ToLower(TrimSpace(parts[1])) \notin Tiers => trace.msgType = CHAT
          /\ Len(parts) < 2 => ~trace.isProactive

\* C7: when the classification call fails, the tier is personal for a message
\* matching a personal pattern and chat otherwise, never temporary, and no
\* proactive task is scheduled.
C7_FallbackIsRegex ==
    (Len(history) > 0 /\ trace.fallback) =>
       /\ trace.msgType = (IF LastMsg.content = MsgLikeCats THEN PERSONAL ELSE CHAT)
       /\ trace.msgType # TEMPORARY
       /\ ~trace.isProactive
       /\ ~trace.spawned
       /\ trace.taskAt = -1
       /\ \A g \in goroutines : g.kind # "proactive"

\* the fallback classified a message personal and it reached that namespace
C7_Witness ==
    /\ Len(history) > 0
    /\ trace.fallback
    /\ trace.msgType = PERSONAL
    /\ InNamespace(PERSONAL)

IsHydrated(m) == m.summary # <<>>

ReloadOnFreshProcess ==
    /\ reload.pc = "loaded"
    /\ reload'.pc = "done"
    /\ cronEntries = {}
    /\ PeriodicEntries = EmptyMap

\* C9: ReloadPeriodicTasks on cleared in-memory state leaves exactly one engine
\* entry per persisted periodic task, carrying the persisted task, and
\* PeriodicEntries keyed by exactly the persisted ids; and a poll cycle that
\* ends before ReloadPeriodicTasks has run still dispatches the due once tasks.
C9_RestartRoundTrip ==
    [][ /\ ReloadOnFreshProcess =>
              /\ DOMAIN PeriodicEntries' = DOMAIN hashPeriodic
              /\ Cardinality(cronEntries') = Cardinality(DOMAIN hashPeriodic)
              /\ \A id \in DOMAIN hashPeriodic :
                    \E e \in cronEntries' :
                       /\ e.eid = PeriodicEntries'[id]
                       /\ e.task = Unmarshal(hashPeriodic[id]).t
                       /\ e.task.id = id
        /\ (CycleEnds /\ reload.pc = "start") =>
              \A id \in poll.expect : Count(sent', id) = 1
      ]_vars

\* two persisted periodic tasks registered again after a restart, in the other
\* order
C9_Witness ==
    /\ reload.pc = "done"
    /\ nextEntry = 3
    /\ Cardinality(cronEntries) = 2
    /\ \E a, b \in DOMAIN PeriodicEntries :
          a[2] < b[2] /\ PeriodicEntries[a] = 2 /\ PeriodicEntries[b] = 1

\* a step of a RemoveTask(id) call made right after RemoveTask(id) returned
RepeatedRemoveStep ==
    /\ pc[Remover] # pc'[Remover]
    /\ justRemoved # NoID
    /\ justRemoved' = justRemoved

\* a step of a RemoveTask call for an id that was never added
UnknownRemoveStep ==
    /\ pc[Remover] # pc'[Remover]
    /\ rdbUp
    /\ UnknownID \in {arg[Remover].id, arg'[Remover].id}

\* C10: with the store available, no step of a RemoveTask(id) call repeated
\* right after the first, and no step of a RemoveTask call for an id never
\* added, changes the engine, PeriodicEntries, the periodic hash, the content
\* hash or the time index, and the call returns nil.
C10_RemoveIdempotent ==
    [][ (RepeatedRemoveStep \/ UnknownRemoveStep) =>
           /\ UNCHANGED <<cronEntries, PeriodicEntries, hashPeriodic, hashOnce, zset>>
           /\ pc'[Remover] = "idle" => ret'[Remover] = "nil"
      ]_vars

\* RemoveTask of a task that was added is being repeated
C10_Witness ==
    /\ pc[Remover] = "rm_hdel"
    /\ arg[Remover].id = justRemoved
    /\ justRemoved \in removed

\* C11 (as claimed): while database.RDB is nil no step changes the engine,
\* PeriodicEntries or a stored task, an AddTask call and a RemoveTask call
\* return an error, and the list_timer_tasks tool reports a failure.
C11_FailClosed ==
    [][ ~rdbUp =>
           /\ UNCHANGED <<cronEntries, PeriodicEntries, zset, hashOnce,
                          hashPeriodic>>
           /\ nano' # nano => ret'[Adder] = "err"
           /\ ExecuteRemoveTimerTask => ret'[Remover] = "err"
           /\ toolResult' # toolResult => ~toolResult'.success
      ]_vars

\* C12: with the store available, AddTask of a periodic task whose expression
\* does not parse returns an error at once and leaves the engine,
\* PeriodicEntries, the periodic hash, the one-shot structures and the lock as
\* they were.
C12_InvalidScheduleRejected ==
    [][ \A t \in ToolInputs :
           (rdbUp /\ t.type = "periodic" /\ t.time_expr = BadCron
                  /\ AddTaskCall(Adder, t))
           => /\ pc'[Adder] = "idle"
              /\ ret'[Adder] = "err"
              /\ UNCHANGED <<cronEntries, nextEntry, PeriodicEntries,
                             hashPeriodic, hashOnce, zset, schedulerMu>>
      ]_vars

\* the first add_timer_task call asked for a malformed expression: AddTask
\* returned an error and nothing is registered or stored
C12_Witness ==
    /\ rdbUp
    /\ nano = 1
    /\ pc[Adder] = "idle"
    /\ ret[Adder] = "err"
    /\ cronEntries = {}
    /\ PeriodicEntries = EmptyMap
    /\ hashPeriodic = EmptyMap

\* the tasks held, in decodable form, by the two content maps
StoredTasks ==
    {d.v : d \in {x \in {hashOnce[k] : k \in DOMAIN hashOnce}
                          \cup {hashPeriodic[k] : k \in DOMAIN hashPeriodic} :
                    x.valid}}

\* ... of them, those of group g (any group when g = 0) and user u (any user
\* when u = 0)
Selected(g, u) ==
    {t \in StoredTasks : (g = 0 \/ t.group_id = g) /\ (u = 0 \/ t.user_id = u)}

\* C13: with the store available, before and after every step and for every
\* pair of filters, ListTasks returns exactly the decodable stored tasks whose
\* group and user match (0 matching all); and a list_timer_tasks call reports
\* their number and changes nothing else.
C13_ListExact ==
    [][ rdbUp =>
           /\ \A g \in 0..2, u \in 0..2 :
                 /\ ListTasks(g, u) = Selected(g, u)
                 /\ ListTasks(g, u)' = Selected(g, u)'
           /\ toolResult' # toolResult =>
                 /\ UNCHANGED <<schedVars, ragVars, retVars>>
                 /\ \E g \in Groups, u \in {0} \cup Users :
                       toolResult'.count = Cardinality(Selected(g, u))
      ]_vars

\* the list tool has left out a stored task of another user while an entry
\* that does not decode lies in the content map
C13_Witness ==
    /\ rdbUp
    /\ toolResult.tool = "list"
    /\ poll = IdlePoll
    /\ sent = EmptyMap
    /\ StoredD \in DOMAIN hashOnce
    /\ toolResult.count >= 1
    /\ toolResult.count < Cardinality(Selected(0, 0))

\* C14 (as claimed): every stored task is of type once or periodic; a once
\* task is held by the one-shot structures only, indexed under its target_at;
\* a periodic task has an expression and is held by the periodic map only.
C14_KindInvariant ==
    /\ \A id \in DOMAIN hashOnce :
          Unmarshal(hashOnce[id]).t.type = "once" /\ id \notin DOMAIN hashPeriodic
    /\ \A id \in (DOMAIN zset) \cap (DOMAIN hashOnce) :
          zset[id] = Unmarshal(hashOnce[id]).t.target_at
    /\ \A id \in DOMAIN hashPeriodic :
          /\ Unmarshal(hashPeriodic[id]).t.type = "periodic"
          /\ Unmarshal(hashPeriodic[id]).t.time_expr # ""
          /\ id \notin DOMAIN zset

\* the entries ReloadPeriodicTasks has read that decode and whose expression
\* parses
WellFormed(all) ==
    {id \in DOMAIN all : all[id].valid /\ all[id].v.time_expr = GoodCron}

\* the step on which ReloadPeriodicTasks registers what it read
ReloadRuns == reload.pc = "loaded" /\ reload'.pc = "done"

\* C15: whatever mix of entries ReloadPeriodicTasks has read, it registers
\* every well-formed one with the engine under the EntryID it records in
\* PeriodicEntries, registers nothing for the others, and ends with the lock
\* released.
C15_ReloadSkipsMalformed ==
    [][ ReloadRuns =>
           /\ \A id \in WellFormed(reload.all) :
                 /\ id \in DOMAIN PeriodicEntries'
                 /\ \E e \in cronEntries' \ cronEntries :
                       e.eid = PeriodicEntries'[id] /\ e.task = reload.all[id].v
           /\ Cardinality(cronEntries' \ cronEntries)
                 = Cardinality(WellFormed(reload.all))
           /\ \A id \in (DOMAIN reload.all) \ WellFormed(reload.all) :
                 id \in DOMAIN PeriodicEntries' => id \in DOMAIN PeriodicEntries
           /\ schedulerMu' = NoOne
      ]_vars

\* a reload over a well-formed entry, one with a malformed expression and one
\* that does not decode
C15_Witness ==
    /\ reload.pc = "done"
    /\ DOMAIN hashPeriodic = {StoredP, StoredQ, StoredR}
    /\ DOMAIN PeriodicEntries = {StoredP}
    /\ Cardinality(cronEntries) = 1

\* the step on which a SaveMessageToRAG call fails to save the raw record
RawRecordFails == ~trace.dbErr /\ trace'.dbErr

\* C16: a SaveMessageToRAG call that fails to save the raw record classifies
\* nothing, starts no goroutine, writes to no store and schedules nothing; and
\* every goroutine started, every cache entry, every vector and every
\* association row is for a message whose raw record has been saved.
C16_RawRecordFirst ==
    [][ /\ RawRecordFails =>
              /\ trace' = [trace EXCEPT !.dbErr = TRUE]
              /\ UNCHANGED <<history, goroutines, tempMem, namespaces,
                             embeddings, schedVars>>
        /\ \A g \in goroutines' : g.msg \in 1..Len(history')
        /\ \A r \in tempMem' : r.msg \in 1..Len(history')
        /\ \A ns \in DOMAIN namespaces' : namespaces'[ns] \subseteq 1..Len(history')
        /\ \A r \in embeddings' : r.ref \in 1..Len(history')
      ]_vars

\* after a message was recorded and routed, the raw record of another could
\* not be saved
C16_Witness ==
    /\ trace.dbErr
    /\ Len(history) = 1
    /\ goroutines = {}
    /\ tempMem \cup namespaces[PERSONAL] \cup namespaces[CHAT] # {}

\* the step on which the poller hands a decoded task to GlobalSender
Dispatches == poll.pc = "send" /\ ~Unmarshal(poll.data).err

\* C17: every decoded due task is handed to GlobalSender, once per step and
\* once in all by the end of the cycle; for an id with the proactive_ prefix
\* the text is a non-empty generated reply or else the fixed message, for any
\* other id it is the stored content.
C17_ProactiveNeverDropped ==
    [][ /\ Dispatches =>
              LET id == poll.ids[poll.i]
                  t == Unmarshal(poll.data).t
              IN /\ Count(sent', id) = Count(sent, id) + 1
                 /\ poll'.pc = "zrem"
                 /\ IF HasProactivePrefix(t.id)
                    THEN poll'.content \in
                            {FallbackCare} \cup
                            {r.content : r \in {x \in CareReplies :
                                 x.kind = "ok" /\ x.content # <<>>}}
                    ELSE poll'.content = t.content
        /\ \A r \in CareReplies :
              (r.kind # "ok" \/ r.content = <<>>) =>
                 SendContent(StoredOnceTask(StoredC), r) = FallbackCare
        /\ CycleEnds => \A id \in poll.expect : Count(sent', id) = 1
      ]_vars

\* the fixed message went out for a proactive follow-up
C17_Witness ==
    /\ poll.pc = "zrem"
    /\ HasProactivePrefix(poll.ids[poll.i])
    /\ poll.content = FallbackCare
    /\ Count(sent, poll.ids[poll.i]) = 1

\* a step of the poller's cycle
PollStep ==
    PollDone \/ PollFetch \/ PollStale \/ PollSend \/ PollZRem \/ PollHDel

\* C18: however the steps of RemoveTask(id) and of a poll cycle interleave,
\* GlobalSender is called only with the content the cycle has read for the id
\* it is handling, never with none; a cycle under way always has a next step;
\* and once RemoveTask(id) has returned, id is in neither the time index nor
\* the content map, whatever the cycle still does.
C18_RemoveRacesDispatch ==
    [][ /\ sent' # sent =>
              /\ poll.pc = "send"
              /\ ~Unmarshal(poll.data).err
              /\ Unmarshal(poll.data).t.id = poll.ids[poll.i]
              /\ poll'.content = Unmarshal(poll.data).t.content
              /\ poll'.content # <<>>
        /\ poll.pc # "idle" => ENABLED PollStep
        /\ \A id \in removed' :
              id \notin DOMAIN zset' /\ id \notin DOMAIN hashOnce'
      ]_vars

\* RemoveTask(id) has returned while the poller, which had read the content of
\* id before, has sent it and is about to clean up
C18_Witness ==
    /\ poll.pc = "zrem"
    /\ poll.ids[poll.i] \in removed
    /\ Count(sent, poll.ids[poll.i]) = 1
    /\ poll.content = Water

\* the poller is about to look up an id of its sweep that has no content entry
FindsStale ==
    /\ poll.pc = "fetch"
    /\ poll.i <= Len(poll.ids)
    /\ poll.ids[poll.i] \notin DOMAIN hashOnce

\* C19: an id of the sweep without a content entry is never handed to
\* GlobalSender; its index entry is removed and the cycle moves on to the next
\* id of the same sweep, so that by the end of the cycle every due task with
\* content has been sent once.
C19_StaleSelfHealing ==
    [][ /\ FindsStale => poll'.pc = "stale" /\ UNCHANGED <<sent, zset, hashOnce>>
        /\ poll.pc = "stale" =>
              /\ poll.ids[poll.i] \notin DOMAIN zset'
              /\ \A id \in DOMAIN zset : id # poll.ids[poll.i] => id \in DOMAIN zset'
              /\ UNCHANGED <<sent, hashOnce>>
              /\ poll' = [poll EXCEPT !.pc = "fetch", !.i = poll.i + 1]
        /\ CycleEnds =>
              /\ \A id \in poll.expect : Count(sent', id) = 1
              /\ \A j \in 1..Len(poll.ids) :
                    poll.ids[j] \notin poll.expect => Count(sent', poll.ids[j]) = 0
      ]_vars

\* the task that follows a stale index entry in the sweep has been sent, the
\* stale entry is gone
C19_Witness ==
    /\ poll.pc = "zrem"
    /\ poll.i > 1
    /\ poll.ids[poll.i - 1] = StoredA
    /\ StoredA \notin DOMAIN zset
    /\ Count(sent, StoredA) = 0
    /\ Count(sent, poll.ids[poll.i]) = 1

\* C20 (as claimed): whenever no AddTask or RemoveTask call is under way and
\* ReloadPeriodicTasks has completed, the keys of PeriodicEntries are the ids
\* of the periodic map.
C20_RegistryConsistent ==
    (pc[Adder] = "idle" /\ pc[Remover] = "idle" /\ reload.pc = "done")
    => DOMAIN PeriodicEntries = DOMAIN hashPeriodic

\* ---------------------------------------------------------------------
\* C21  No duplicate or orphaned engine entries: every live engine entry
\*      is the one PeriodicEntries records for its task id, and no task
\*      id has two live engine entries (so one schedule tick delivers a
\*      task at most once).
C21_OneEntryPerId ==
    /\ \A e \in cronEntries :
          /\ e.task.id \in DOMAIN PeriodicEntries
          /\ PeriodicEntries[e.task.id] = e.eid
    /\ \A e1, e2 \in cronEntries : e1.task.id = e2.task.id => e1 = e2

\* ---------------------------------------------------------------------
\* C22  Index/content split invariant: whenever no AddTask, RemoveTask or
\*      poll cycle is in progress, the one-shot time index and the
\*      one-shot content map hold the same ids, and the score of an id is
\*      the target_at of its stored content.
C22_IndexContentSplit ==
    (pc[Adder] = "idle" /\ pc[Remover] = "idle" /\ poll.pc = "idle")
    => /\ DOMAIN zset = DOMAIN hashOnce
       /\ \A id \in DOMAIN zset :
             hashOnce[id].valid => zset[id] = hashOnce[id].v.target_at

\* ---------------------------------------------------------------------
\* C23  Lock discipline: PeriodicEntries changes only in a step that finds
\*      schedulerMu free and takes it; whoever holds schedulerMu after a
\*      step is inside AddTask's critical section and its next step, which
\*      releases the lock, is enabled; an operation that has returned does
\*      not hold the lock. So the holder always makes progress and no
\*      interleaving leaves an operation waiting forever.
C23_LockDiscipline ==
    [][ /\ PeriodicEntries' # PeriodicEntries => schedulerMu = NoOne
        /\ schedulerMu # NoOne =>
              /\ schedulerMu \in Clients
              /\ pc[schedulerMu] = "add_hset_periodic"
              /\ ENABLED AddTaskHSetPeriodic(schedulerMu)
        /\ \A c \in Clients :
              (pc[c] # "idle" /\ pc'[c] = "idle") => schedulerMu' # c
        /\ (\A c \in Clients : pc'[c] = "idle") => schedulerMu' = NoOne
      ]_vars

\* AddTask holds schedulerMu, with its id registered, while the reload
\* goroutine has read the store and waits for the lock.
C23_Witness ==
    /\ schedulerMu = Adder
    /\ reload.pc = "loaded"
    /\ PeriodicEntries # EmptyMap

\* ---------------------------------------------------------------------
\* C24  Cancelled reminders stay cancelled: once RemoveTask(id) has
\*      returned success for a one-shot task, no delivery for that id
\*      happens afterwards.
C24_CancelledStaysCancelled ==
    [][ \A id \in DOMAIN sent' :
           id \in removed
           => sent'[id] = (IF id \in DOMAIN sent THEN sent[id] ELSE 0)
      ]_vars

\* ---------------------------------------------------------------------
\* C25  Task identity is unique: no step replaces the stored content of a
\*      one-shot id by a different task, and no step re-registers a stored
\*      periodic id with a different task; every accepted AddTask adds a
\*      new stored task.
C25_NoOverwrite ==
    [][ /\ \A id \in DOMAIN hashOnce \cap DOMAIN hashOnce' :
              hashOnce'[id] = hashOnce[id]
        /\ \A id \in DOMAIN hashPeriodic \cap DOMAIN hashPeriodic' :
              hashPeriodic'[id] = hashPeriodic[id]
      ]_vars

\* ---------------------------------------------------------------------
\* C26  Unparseable one-shot entries are dropped, never retried: an id
\*      whose stored content does not unmarshal is never passed to the
\*      Notifier; the step that finds the decoding error goes straight to
\*      the cleanup; when the poll cycle that swept the id ends, the id is
\*      in neither the time index nor the content map, and it does not
\*      come back into the index.
Unparseable(id) ==
    id \in DOMAIN hashOnce /\ Unmarshal(hashOnce[id]).err

C26_UnparseableDropped ==
    [][ /\ \A id \in DOMAIN hashOnce :
              Unparseable(id) => id \notin DOMAIN sent'
        /\ CycleEnds =>
              \A k \in 1..Len(poll.ids) :
                 /\ ~Unparseable(poll.ids[k])
                 /\ poll.ids[k] \notin DOMAIN zset'
        /\ (poll.pc = "send" /\ Unmarshal(poll.data).err /\ poll' # poll)
              => /\ poll'.pc = "zrem"
                 /\ sent' = sent
        /\ StoredD \notin DOMAIN zset => StoredD \notin DOMAIN zset'
      ]_vars

\* A poll cycle has swept the entry that does not decode and has ended: the
\* entry is gone from both structures and nothing was sent for it, while the
\* plain task swept with it was delivered.
C26_Witness ==
    /\ poll.pc = "idle"
    /\ StoredD \notin DOMAIN zset
    /\ StoredD \notin DOMAIN hashOnce
    /\ StoredD \notin DOMAIN sent
    /\ StoredB \in DOMAIN sent

\* ---------------------------------------------------------------------
\* C27  Poll-cycle frame: the sweep takes exactly the ids whose score is
\*      between 0 and now and changes nothing in the store; every later
\*      step of the cycle changes the time-index entry, the content entry
\*      and the delivery count of swept ids only; no step of a cycle
\*      changes the periodic-tasks map, PeriodicEntries or the engine's
\*      entries; a cycle with an empty sweep ends without a change and
\*      without a Notifier call; with the store unavailable no cycle runs.
DueAt(z, t) == {id \in DOMAIN z : 0 <= z[id] /\ z[id] <= t}

Swept == {poll.ids[k] : k \in 1..Len(poll.ids)}

SameEntry(f, g, id) ==
    (id \in DOMAIN f <=> id \in DOMAIN g) /\ (id \in DOMAIN f => f[id] = g[id])

C27_PollFrame ==
    [][ /\ (PollSweep \/ PollStep) =>
              /\ UNCHANGED <<hashPeriodic, PeriodicEntries, cronEntries,
                             nextEntry, fired>>
              /\ \A id \in (DOMAIN zset \cup DOMAIN hashOnce
                              \cup DOMAIN sent') \ Swept :
                    /\ SameEntry(zset, zset', id)
                    /\ SameEntry(hashOnce, hashOnce', id)
                    /\ SameEntry(sent, sent', id)
        /\ PollSweep =>
              /\ {poll'.ids[k] : k \in 1..Len(poll'.ids)} = DueAt(zset, now)
              /\ UNCHANGED <<zset, hashOnce, sent>>
        /\ (PollStep /\ Swept = {}) =>
              /\ poll'.pc = "idle"
              /\ UNCHANGED <<zset, hashOnce, sent>>
        /\ ~rdbUp => UNCHANGED <<poll, zset, hashOnce, sent>>
      ]_vars

\* A cycle has delivered a due task while a task that is not yet due is
\* stored with both entries.
C27_Witness ==
    /\ poll.pc = "zrem"
    /\ Swept # {}
    /\ \A id \in Swept : id \in DOMAIN sent
    /\ \E id \in DOMAIN zset \cap DOMAIN hashOnce : zset[id] > now

\* ---------------------------------------------------------------------
\* C28  No early and no starved reminders: a one-shot task is delivered
\*      only at a time at or after its target_at, and when a poll cycle
\*      ends no task stored with both entries has a target_at at or before
\*      the time of the cycle, whatever target_at the add path produced
\*      (zero and negative values included).
C28_NoEarlyNoStarved ==
    [][ /\ (poll.pc = "send" /\ sent' # sent)
              => Unmarshal(poll.data).t.target_at <= now
        /\ CycleEnds =>
              \A id \in DOMAIN zset' \cap DOMAIN hashOnce' : zset'[id] > now
      ]_vars

\* ---------------------------------------------------------------------
\* C29  Derived retrieval signals are computed over the returned memory
\*      set: with the maximum taken over the matches that were hydrated
\*      into the context (0 when there is none), the high-confidence
\*      signal is set iff that maximum is above 0.85, the low-confidence
\*      signal iff it is above 0 and below 0.6, and the personal-scene
\*      signal iff a hydrated match of the personal namespace scores above
\*      0.7. Scores are in hundredths.
Returned == {answer.contextTexts[k] : k \in 1..Len(answer.contextTexts)}

HighConfidence == answer.maxScore > 85

LowConfidence == answer.maxScore > 0 /\ answer.maxScore < 60

C29_SignalsOverReturnedSet ==
    LET ReturnedMax ==
            IF Returned = {} THEN 0
            ELSE CHOOSE s \in {m.score : m \in Returned} :
                    \A m \in Returned : m.score <= s
    IN
    answer.pc = "done" =>
       /\ HighConfidence <=> ReturnedMax > 85
       /\ LowConfidence <=> (ReturnedMax > 0 /\ ReturnedMax < 60)
       /\ answer.isPersonalScene <=>
             \E m \in Returned : m.id[1] = "p" /\ m.score > 70

\* ---------------------------------------------------------------------
\* C30  Long-term write ordering: an association record exists, or is
\*      about to be written, only for a vector id that is already in a
\*      long-term namespace; the step that writes the record finds the
\*      vector upserted; and when the embedding or the upsert fails the
\*      pipeline of that message ends with no association goroutine, no
\*      record and nothing changed in what the caller recorded.
Upserted(ns, v) == v \in ns[PERSONAL] \cup ns[CHAT]

C30_LongTermOrdering ==
    [][ /\ \A r \in embeddings' : Upserted(namespaces', r.vector)
        /\ \A g \in goroutines' : g.kind = "assoc" => Upserted(namespaces', g.msg)
        /\ \A r \in embeddings' \ embeddings : Upserted(namespaces, r.vector)
        /\ \A g \in goroutines :
              (g.kind = "embed" /\ g \notin goroutines'
                 /\ ~Upserted(namespaces', g.msg))
              => /\ \A h \in goroutines' : h.kind = "assoc" => h.msg # g.msg
                 /\ \A r \in embeddings' : r.ref # g.msg
                 /\ UNCHANGED <<history, trace, tempMem>>
      ]_vars

\* Two long-term messages have been handled: the first was embedded, upserted
\* and has its association record; the pipeline of the second failed and left
\* neither a vector nor a record.
C30_Witness ==
    /\ Len(history) = 2
    /\ goroutines = {}
    /\ Upserted(namespaces, 1)
    /\ \E r \in embeddings : r.ref = 1
    /\ trace.msgType \in {PERSONAL, CHAT}
    /\ ~trace.dbErr
    /\ ~Upserted(namespaces, 2)
    /\ \A r \in embeddings : r.ref # 2

\* ---------------------------------------------------------------------
\* C31  Proactive payload round-trip: whenever the poller has built the
\*      prompt of a proactive follow-up whose stored content is
\*      reason + "|" + original message, the prompt holds that reason and
\*      the complete original message, a "|" inside it included.
C31_PayloadRoundTrip ==
    \A m \in OrigMsgs :
       (/\ poll.pc = "zrem"
        /\ ~Unmarshal(poll.data).err
        /\ HasProactivePrefix(Unmarshal(poll.data).t.id)
        /\ Unmarshal(poll.data).t.content = Exam \o Bar \o m)
       => poll.prompt = [reason |-> Exam, origMsg |-> m]

\* ---------------------------------------------------------------------
\* C32  Proactive interjection cooldown: two interjections sent to the
\*      same group are at least 5 minutes apart, and no goroutine is
\*      inside an access of proactiveCooldown while another one is.
C32_CooldownHolds ==
    /\ \A a, b \in interjections :
          (a # b /\ a.group = b.group)
          => (a.at - b.at >= Cooldown \/ b.at - a.at >= Cooldown)
    /\ Cardinality(mapAccess) <= 1

\* C33: admin-only tools.  ExecuteTool for toggle_bot or toggle_rag with
\* isSuperUser = FALSE returns a failure and leaves the groups table (the rows,
\* IsActive, RAGEnabled) as it was; a tool that is not marked RequireAdmin, or
\* an unknown tool name, is never refused by the permission check, whatever
\* the flag; an unknown tool name returns a failure and changes no state.
C33_AdminOnly ==
    [][\A toolName \in ToolNames \cup {NoSuchTool}, g \in Groups,
          isSuperUser \in BOOLEAN :
          \A args \in ArgsOf(toolName, g, 1) :
             (toolCall'.tool = toolName
                 /\ ExecuteTool(toolName, args, g, 1, isSuperUser)) =>
                /\ (toolName \in {"toggle_bot", "toggle_rag"} /\ ~isSuperUser)
                      => /\ ~toolResult'.success
                         /\ UNCHANGED <<groupRows, groupActive, groupRAG>>
                /\ toolName \notin {"toggle_bot", "toggle_rag"}
                      => toolResult'.msg # "admin_only"
                /\ toolName = NoSuchTool
                      => /\ ~toolResult'.success
                         /\ UNCHANGED <<schedVars, ragVars, retVars, chatVars,
                                        groupRows, groupRAG>>]_vars

\* a toggle_rag by a caller who is no super user was refused, for a group
\* whose row exists
C33_Witness ==
    /\ toolCall.tool = "toggle_rag" /\ ~toolCall.super /\ toolCall.ok
    /\ toolResult.tool = "toggle_rag" /\ toolResult.msg = "admin_only"
    /\ toolCall.group \in groupRows

\* C34: task visibility.  In a group chat and in a private chat (groupID 0),
\* list_timer_tasks returns to a caller who is no super user exactly the
\* stored tasks of that caller in the current group, and to a super user
\* exactly the stored tasks of the current group; no task of another user or
\* of another group is returned to a caller who is no super user.
C34_TaskVisibility ==
    [][\A g \in CallGroups, u \in Users, isSuperUser \in BOOLEAN :
          (/\ rdbUp
           /\ toolCall'.tool = "list_timer_tasks"
           /\ ExecuteTool("list_timer_tasks", NoArgs, g, u, isSuperUser)) =>
             toolResult'.tasks =
                {t \in StoredTasks :
                    /\ t.group_id = g
                    /\ isSuperUser \/ t.user_id = u}]_vars

\* in a private chat, a caller who is no super user was shown a task of a
\* group chat
C34_GroupTaskShownInPrivateChat ==
    /\ toolCall.tool = "list_timer_tasks"
    /\ toolCall.group = PrivateChat
    /\ ~toolCall.super
    /\ toolResult.tool = "list"
    /\ \E t \in toolResult.tasks : t.group_id # PrivateChat

\* C35: the reported id is the stored id.  When add_timer_task has succeeded,
\* the id its success message shows is not empty and is the id AddTask
\* generated for the task, and the task lies in the store under that id, so
\* that remove_timer_task with the reported id addresses this task.
C35_ReportedIdIsStoredId ==
    (toolResult.tool = "add_timer_task" /\ toolResult.success) =>
       /\ toolResult.id # NoID
       /\ toolResult.id = GenTaskID(nano, toolCall.task.user_id)
       /\ \E t \in StoredTasks :
             /\ t.id = toolResult.id
             /\ t.user_id = toolCall.user
             /\ t.group_id = toolCall.group

\* add_timer_task has succeeded and the task lies in the store under the id
\* AddTask generated, while the success message shows an empty id
C35_EmptyIdReported ==
    /\ toolResult.tool = "add_timer_task" /\ toolResult.success
    /\ \E t \in StoredTasks :
          /\ t.id = GenTaskID(nano, toolCall.user)
          /\ t.user_id = toolCall.user
          /\ t.group_id = toolCall.group
    /\ toolResult.id = NoID

\* C36: group switch round trip and frame.  A group without a row in the
\* groups table is reported active and RAG-enabled.  After a successful
\* toggle_bot(active = x), get_bot_status and IsBotActive report x and the
\* group's RAG switch is what it was; after a successful toggle_rag(enabled =
\* y), get_rag_status and IsRAGEnabled report y and the group's activity is
\* what it was; both also when the toggle created the group's row.
C36_SwitchRoundTrip ==
    [][\A g \in Groups :
          /\ g \notin groupRows =>
                /\ IsBotActive(g) /\ IsRAGEnabled(g)
                /\ executeGetBotStatus(g, TRUE).success
                /\ executeGetBotStatus(g, TRUE).value
                /\ executeGetRAGStatus(g, TRUE).success
                /\ executeGetRAGStatus(g, TRUE).value
          /\ \A args \in FlagArgs :
                /\ (/\ toolCall'.tool = "toggle_bot"
                    /\ ExecuteTool("toggle_bot", args, g, 1, TRUE)
                    /\ toolResult'.success) =>
                      /\ IsBotActive(g)' = args.flag
                      /\ executeGetBotStatus(g, TRUE)'.value = args.flag
                      /\ IsRAGEnabled(g)' = IsRAGEnabled(g)
                      /\ executeGetRAGStatus(g, TRUE)' = executeGetRAGStatus(g, TRUE)
                /\ (/\ toolCall'.tool = "toggle_rag"
                    /\ ExecuteTool("toggle_rag", args, g, 1, TRUE)
                    /\ toolResult'.success) =>
                      /\ IsRAGEnabled(g)' = args.flag
                      /\ executeGetRAGStatus(g, TRUE)'.value = args.flag
                      /\ IsBotActive(g)' = IsBotActive(g)
                      /\ executeGetBotStatus(g, TRUE)' = executeGetBotStatus(g, TRUE)
      ]_vars

\* the first toggle of a group, toggle_bot(active = FALSE), has created the
\* group's row: the group is inactive and still RAG-enabled
C36_Witness ==
    /\ toolCall.tool = "toggle_bot" /\ toolCall.created /\ ~toolCall.flag
    /\ toolResult.tool = "toggle_bot" /\ toolResult.success
    /\ ~IsBotActive(toolCall.group)
    /\ IsRAGEnabled(toolCall.group)

============================================================================
